---------------------------- MODULE Spec2Model ----------------------------
(***************************************************************************)
(* OneWayQR: unidirectional transfer of a payload as a sequence of frames. *)
(* The model covers the sender's frame generator (sender.generate_frames), *)
(* the XOR parity engine (fec), the frame codec (frames.Frame), and the    *)
(* receiver (receiver.Reassembler and receiver.process_stream).            *)
(*                                                                         *)
(* Bytes are naturals in 0..255, byte strings are sequences of bytes, and  *)
(* text is a sequence of ASCII codes.  An optional value (Python's None)   *)
(* is the empty sequence; a present one is a one-element sequence, except  *)
(* session_id, whose None and b"" are both the empty byte string (the code *)
(* tests it by truthiness).                                                *)
(***************************************************************************)
EXTENDS Naturals, Integers, Sequences, FiniteSets, TLC

VARIABLES
    \* ---- sender (sender.main / generate_frames) ----
    payload,        \* bytes of the prepared payload file
    cfg,            \* operator parameters: chunk_size, superblock_data, redundancy,
                    \* header_repeat, header_interval
    tx_pc,          \* position of the generator: "headers", "read", "data", "parity", "done"
    tx_i,           \* loop index of the for-loop the generator is suspended in
    block_id,       \* generate_frames: block_id
    superblock_id,  \* generate_frames: superblock_id
    chunk_pos,      \* file offset of chunk_iter
    tx_blocks,      \* generate_frames: data_blocks of the current superblock
    emitted,        \* the frames yielded so far, in order
    \* ---- optical channel (frames in flight) ----
    early,          \* indices of emitted frames ingested while their session was not adopted
    post,           \* indices of emitted frames ingested while their session was adopted
    extra,          \* number of deliveries beyond the first one of each emitted frame
    \* ---- receiver (Reassembler) ----
    meta,           \* self.meta: <<>> or <<SessionMetadata>>
    session_id,     \* self.session_id: <<>> or 16 bytes
    data_blocks,    \* self.data_blocks: block_id -> bytes
    parity_blocks,  \* self.parity_blocks: superblock_id -> list of bytes
    headers_seen,   \* self.headers_seen
    \* ---- screen and capture loop (sender.frames_to_qr_strings, receiver.process_stream) ----
    wire,           \* the base64 texts rendered as QR codes, one per emitted frame
    ps_pc,          \* process_stream: "capture" (reading images), "decode" (holding one
                    \* decoded text), "report" (after the texts of an image), "ended"
                    \* (the loop is left), "write", "verify", "extract", "cleanup"
                    \* (the statements after the loop), "returned", "raised" (an
                    \* exception left the function)
    ps_data,        \* process_stream: data, the text of the QR code being handled
    ps_kind,        \* how the text in ps_data differs from the rendered one
    ps_last,        \* what became of the last text handled: <<>>, <<"skipped">>,
                    \* <<"ingested">> or <<exception, message>>
    ps_n,           \* number of texts taken from captured images
    ps_exc,         \* <<>>, or <<exception, message>> of the exception raised
    fs_tmp,         \* the file "payload.tmp": <<>> when absent, <<bytes>> otherwise
    fs_out,         \* what is at output_path: <<>> when nothing, otherwise
                    \* <<[kind |-> "file" or "directory", content |-> bytes]>>
    \* ---- sender.main ----
    main_pc,        \* "start", "staged" (prepare_payload has returned), "rendering"
                    \* (inside the try block), "exited"
    main_args,      \* the arguments that decide the path taken: no_display,
                    \* video_output (given or not), input_ok (the input can be read)
    tmp_file,       \* whether the temporary payload file exists
    main_exc,       \* <<>>, or <<exception>> with which main was left
    \* ---- fec.py on its own ----
    fec_blocks,     \* B: the list of byte blocks handed to the functions
    fec_op,         \* <<>>, <<"generate", r>> or <<"recover", i>>: the call made
    fec_result,     \* <<>>, or <<value returned>>
    \* ---- codec round trip (frames.Frame) ----
    cf,             \* a Frame value
    cf_text,        \* <<>> or <<result of cf.to_b64()>>
    cf_back         \* <<>> or <<result of Frame.from_b64 on that text>>

txvars == <<payload, cfg, tx_pc, tx_i, block_id, superblock_id, chunk_pos, tx_blocks, emitted>>
chvars == <<early, post, extra>>
rxvars == <<meta, session_id, data_blocks, parity_blocks, headers_seen>>
psvars == <<wire, ps_pc, ps_data, ps_kind, ps_last, ps_n, ps_exc, fs_tmp, fs_out>>
cdvars == <<cf, cf_text, cf_back>>
mainvars == <<main_pc, main_args, tmp_file, main_exc>>
fecvars == <<fec_blocks, fec_op, fec_result>>
vars == <<txvars, chvars, rxvars, psvars, cdvars, mainvars, fecvars>>

-----------------------------------------------------------------------------
(* Bounds of the model *)

MaxSize == 5        \* longest payload, in bytes
MaxExtra == 1       \* deliveries that are repeats, or frames of another transmission

-----------------------------------------------------------------------------
(* Small helpers *)

Min(a, b) == IF a < b THEN a ELSE b
Max(a, b) == IF a > b THEN a ELSE b

Pow2(n) == <<1, 2, 4, 8, 16, 32, 64, 128, 256>>[n + 1]

\* bit i of the natural n
Bit(n, i) == (n \div Pow2(i)) % 2

\* a ^ b on bytes
Xor8(a, b) ==
    LET x(i) == ((Bit(a, i) + Bit(b, i)) % 2) * Pow2(i)
    IN x(0) + x(1) + x(2) + x(3) + x(4) + x(5) + x(6) + x(7)

\* bytes.ljust(n, b"\0")
ljust(b, n) == IF Len(b) >= n THEN b ELSE b \o [i \in 1..(n - Len(b)) |-> 0]

\* dict update d[k] = v
Put(d, k, v) == [x \in (DOMAIN d) \cup {k} |-> IF x = k THEN v ELSE d[x]]

\* range(a, b) as an ascending list
Range(a, b) == [i \in 1..Max(b - a, 0) |-> a + i - 1]

-----------------------------------------------------------------------------
(* fec.py *)

RECURSIVE MaxLen(_)
MaxLen(blocks) ==
    IF blocks = <<>> THEN 0 ELSE Max(Len(Head(blocks)), MaxLen(Tail(blocks)))

RECURSIVE XorInto(_, _)
XorInto(parity, blocks) ==
    IF blocks = <<>> THEN parity
    ELSE LET padded == ljust(Head(blocks), Len(parity))
         IN XorInto([i \in 1..Len(parity) |-> Xor8(parity[i], padded[i])], Tail(blocks))

\* mutant: the parity has the length of the first block, not of the longest
xor_parity_block_first_len(blocks) ==
    IF blocks = <<>> THEN <<>>
    ELSE XorInto([i \in 1..Len(Head(blocks)) |-> 0], blocks)

xor_parity_block(blocks) ==
    IF blocks = <<>> THEN <<>>
    ELSE LET max_len == MaxLen(blocks)
         IN XorInto([i \in 1..max_len |-> 0], blocks)

\* mutant: one parity block whatever the count
generate_parity_blocks_single(blocks, count) ==
    IF count <= 0 THEN <<>>
    ELSE <<xor_parity_block(blocks)>>

generate_parity_blocks(blocks, count) ==
    IF count <= 0 THEN <<>>
    ELSE [i \in 1..count |-> xor_parity_block(blocks)]

\* mutant: the parity block alone is returned, the known blocks are left out
recover_parity_only(known_blocks, parity_block, missing_count) ==
    IF missing_count # 1 \/ parity_block = <<>> THEN <<>>
    ELSE <<xor_parity_block(<<parity_block>>)>>

\* mutant: no check of the number of missing blocks
recover_any_missing(known_blocks, parity_block, missing_count) ==
    IF parity_block = <<>> THEN <<>>
    ELSE <<xor_parity_block(Append(known_blocks, parity_block))>>

\* <<>> is None, <<b>> the recovered block
recover_single_missing(known_blocks, parity_block, missing_count) ==
    IF missing_count # 1 \/ parity_block = <<>> THEN <<>>
    ELSE <<xor_parity_block(Append(known_blocks, parity_block))>>


-----------------------------------------------------------------------------
(* models.py, chunker.py *)

SESSION_HEADER == 0
DATA == 1
FEC == 2
INDEX == 3
FrameTypes == {SESSION_HEADER, DATA, FEC, INDEX}

\* the sender's session id (uuid4().bytes) and the id of another transmission
SidA == [i \in 1..16 |-> 17]
SidB == [i \in 1..16 |-> 34]

\* mutant: the floor of total_size / chunk_size
estimate_total_chunks_floor(total_size, chunk_size) ==
    total_size \div chunk_size

estimate_total_chunks(total_size, chunk_size) ==
    (total_size + chunk_size - 1) \div chunk_size

\* hashlib.sha256(...).hexdigest(): a digest of the bytes, here one byte wide
\* (the fold h := (h * 33 + byte + 1) % 251 over the bytes, computed by halves:
\* DigestRange gives the fold of b[lo..hi] from 0 and the power 33^(hi-lo+1))
RECURSIVE DigestRange(_, _, _)
DigestRange(b, lo, hi) ==
    IF lo > hi THEN <<0, 1>>
    ELSE IF lo = hi THEN <<(b[lo] + 1) % 251, 33>>
    ELSE CHOOSE r \in { <<(x[1] * y[2] + y[1]) % 251, (x[2] * y[2]) % 251>> :
                           x \in {DigestRange(b, lo, (lo + hi) \div 2)},
                           y \in {DigestRange(b, (lo + hi) \div 2 + 1, hi)} } : TRUE

Digest(h, b) ==
    CHOOSE d \in { (h * r[2] + r[1]) % 251 : r \in {DigestRange(b, 1, Len(b))} } : TRUE
sha256(b) == Digest(7, b)

\* mutant: a short read at the end of the file is padded to chunk_size
ReadChunk_padded(file, pos, chunk_size) ==
    IF pos >= Len(file) THEN <<>>
    ELSE ljust(SubSeq(file, pos + 1, Min(pos + chunk_size, Len(file))), chunk_size)

\* one f.read(chunk_size) of iter_chunks at file offset pos
ReadChunk(file, pos, chunk_size) == SubSeq(file, pos + 1, Min(pos + chunk_size, Len(file)))

\* the chunks iter_chunks yields for the whole file
RECURSIVE iter_chunks(_, _, _)
iter_chunks(file, pos, chunk_size) ==
    LET chunk == ReadChunk(file, pos, chunk_size)
    IN IF chunk = <<>> THEN <<>>
       ELSE <<chunk>> \o iter_chunks(file, pos + Len(chunk), chunk_size)

build_metadata(payload_size, chunk_size, superblock_data, redundancy, sha, sid) ==
    [session_id |-> sid,
     total_size |-> payload_size,
     chunk_size |-> chunk_size,
     total_chunks |-> estimate_total_chunks(payload_size, chunk_size),
     superblock_data |-> superblock_data,
     redundancy |-> redundancy,
     sha256 |-> sha,
     packaging |-> "raw",
     compression |-> "none",
     root_name |-> "in.bin",
     file_count |-> 1]

\* The header payload.  json.dumps(meta.to_dict()) is modelled as a fixed
\* layout of the fields between '{' and '}'; json.loads + from_dict accepts
\* exactly the byte strings of that layout and raises on every other one.
PackagingCode(p) == IF p = "raw" THEN 0 ELSE 1
CompressionCode(c) == IF c = "none" THEN 0 ELSE 1

json_dumps(m) ==
    <<123>> \o m.session_id \o
    <<m.total_size, m.chunk_size, m.total_chunks, m.superblock_data, m.redundancy,
      m.sha256, PackagingCode(m.packaging), CompressionCode(m.compression),
      m.file_count>> \o <<125>>

\* <<>> when parsing raises, <<meta>> otherwise
from_dict(b) ==
    IF Len(b) # 27 \/ b[1] # 123 \/ b[27] # 125 \/ b[24] > 1 \/ b[25] > 1 THEN <<>>
    ELSE <<[session_id |-> SubSeq(b, 2, 17),
            total_size |-> b[18],
            chunk_size |-> b[19],
            total_chunks |-> b[20],
            superblock_data |-> b[21],
            redundancy |-> b[22],
            sha256 |-> b[23],
            packaging |-> IF b[24] = 0 THEN "raw" ELSE "tar",
            compression |-> IF b[25] = 0 THEN "none" ELSE "gz",
            root_name |-> "in.bin",
            file_count |-> b[26]]>>

Frame(ft, sid, sb, bid, total, bis, fl, pl) ==
    [frame_type |-> ft, session_id |-> sid, superblock_id |-> sb, block_id |-> bid,
     total_blocks |-> total, blocks_in_super |-> bis, flags |-> fl, payload |-> pl]

-----------------------------------------------------------------------------
(* frames.py: the frame codec.  A result is a record: raised is <<>> or the  *)
(* exception <<[exc, msg]>>, and the value is in the other field.            *)

\* F applied to the value of e
Eval(e, F(_)) == CHOOSE r \in {F(x) : x \in {e}} : TRUE

MAGIC == <<81, 82, 67, 77>>     \* b"QRCM"
VERSION == 1
HEADER_SIZE == 39               \* _HEADER_STRUCT.size, ">4sBBB16sIIIHH"
CRC_SIZE == 4                   \* _CRC_STRUCT.size, ">I"

Raise(exc, msg) == <<[exc |-> exc, msg |-> msg]>>

\* struct formats I and H, big-endian.  The model's integers end at 2^31 - 1.
PackI(v) == <<(v \div 16777216) % 256, (v \div 65536) % 256, (v \div 256) % 256, v % 256>>

\* mutant: format H packed least significant byte first
PackH_little_endian(v) == <<v % 256, (v \div 256) % 256>>

PackH(v) == <<(v \div 256) % 256, v % 256>>
UnpackI(b) == ((b[1] * 256 + b[2]) * 256 + b[3]) * 256 + b[4]
UnpackH(b) == b[1] * 256 + b[2]

\* zlib.crc32: CRC-32 (IEEE), reflected, polynomial 0xEDB88320.  A register is
\* the tuple of its 32 bits, bit i at index i + 1.
CrcPoly == <<0,0,0,0,0,1,0,0, 1,1,0,0,0,0,0,1, 0,0,0,1,1,1,0,1, 1,0,1,1,0,1,1,1>>

CrcShift(c) ==
    LET p(i) == IF i = 32 THEN CrcPoly[32] ELSE (c[i + 1] + CrcPoly[i]) % 2
        s(i) == IF i = 32 THEN 0 ELSE c[i + 1]
    IN IF c[1] = 1
       THEN <<p(1), p(2), p(3), p(4), p(5), p(6), p(7), p(8), p(9), p(10),
            p(11), p(12), p(13), p(14), p(15), p(16), p(17), p(18), p(19),
            p(20), p(21), p(22), p(23), p(24), p(25), p(26), p(27), p(28),
            p(29), p(30), p(31), p(32)>>
       ELSE <<s(1), s(2), s(3), s(4), s(5), s(6), s(7), s(8), s(9), s(10),
            s(11), s(12), s(13), s(14), s(15), s(16), s(17), s(18), s(19),
            s(20), s(21), s(22), s(23), s(24), s(25), s(26), s(27), s(28),
            s(29), s(30), s(31), s(32)>>

Shifted(S) == {CrcShift(c) : c \in S}

\* the table of the byte-wise algorithm: entry n is n shifted through 8 bits;
\* CrcTable[n + 1] is entry n
CrcTableEntry(n) ==
    LET nb(i) == IF i <= 8 THEN Bit(n, i - 1) ELSE 0
    IN CHOOSE e \in Shifted(Shifted(Shifted(Shifted(Shifted(Shifted(Shifted(Shifted(
                       {<<nb(1), nb(2), nb(3), nb(4), nb(5), nb(6), nb(7),
                        nb(8), nb(9), nb(10), nb(11), nb(12), nb(13), nb(14),
                        nb(15), nb(16), nb(17), nb(18), nb(19), nb(20),
                        nb(21), nb(22), nb(23), nb(24), nb(25), nb(26),
                        nb(27), nb(28), nb(29), nb(30), nb(31), nb(32)>>})))))))) : TRUE

CrcTable == [n \in 1..256 |-> CrcTableEntry(n - 1)] \o <<>>

\* crc = table[(crc ^ b) & 0xFF] ^ (crc >> 8)
CrcByte(c, b) ==
    LET lowb(j) == ((c[j + 1] + Bit(b, j)) % 2) * Pow2(j)
        xb(t, i) == IF i <= 24 THEN (t[i] + c[i + 8]) % 2 ELSE t[i]
    IN CHOOSE e \in
           {<<xb(t, 1), xb(t, 2), xb(t, 3), xb(t, 4), xb(t, 5), xb(t, 6),
            xb(t, 7), xb(t, 8), xb(t, 9), xb(t, 10), xb(t, 11), xb(t, 12),
            xb(t, 13), xb(t, 14), xb(t, 15), xb(t, 16), xb(t, 17), xb(t, 18),
            xb(t, 19), xb(t, 20), xb(t, 21), xb(t, 22), xb(t, 23), xb(t, 24),
            xb(t, 25), xb(t, 26), xb(t, 27), xb(t, 28), xb(t, 29), xb(t, 30),
            xb(t, 31), xb(t, 32)>> :
              t \in {CrcTable[1 + lowb(0) + lowb(1) + lowb(2) + lowb(3)
                              + lowb(4) + lowb(5) + lowb(6) + lowb(7)]}} : TRUE

RECURSIVE CrcUpdate(_, _, _)
CrcUpdate(c, data, k) ==
    IF k > Len(data) THEN c
    ELSE CHOOSE e \in {CrcUpdate(c1, data, k + 1) : c1 \in {CrcByte(c, data[k])}} : TRUE

\* the complement of the register as four bytes, most significant first
CrcBytes(c) ==
    LET ByteAt(k) ==
            LET v(j) == (1 - c[24 - 8 * k + j + 1]) * Pow2(j)
            IN v(0) + v(1) + v(2) + v(3) + v(4) + v(5) + v(6) + v(7)
    IN <<ByteAt(0), ByteAt(1), ByteAt(2), ByteAt(3)>>

\* mutant: a checksum that does not depend on the data
crc32_constant(data) == <<0, 0, 0, 0>>

\* _CRC_STRUCT.pack(zlib.crc32(data) & 0xFFFFFFFF): the four bytes of the CRC
crc32(data) ==
    CHOOSE e \in {CrcBytes(c) :
                    c \in {CrcUpdate([i \in 1..32 |-> 1], d, 1) : d \in {data}}} : TRUE

\* base64, standard alphabet; text is a sequence of ASCII codes
B64Char(v) ==
    IF v < 26 THEN 65 + v
    ELSE IF v < 52 THEN 97 + (v - 26)
    ELSE IF v < 62 THEN 48 + (v - 52)
    ELSE IF v = 62 THEN 43 ELSE 47

\* -1 for a character outside the alphabet
B64Val(ch) ==
    IF ch >= 65 /\ ch <= 90 THEN ch - 65
    ELSE IF ch >= 97 /\ ch <= 122 THEN ch - 97 + 26
    ELSE IF ch >= 48 /\ ch <= 57 THEN ch - 48 + 52
    ELSE IF ch = 43 THEN 62
    ELSE IF ch = 47 THEN 63 ELSE 0 - 1

b64encode(bytes) ==
    LET Encoded(b) ==
            LET n == Len(b)
                byte(k) == IF k <= n THEN b[k] ELSE 0
                sextet(g, j) ==
                    IF j = 0 THEN byte(3 * g - 2) \div 4
                    ELSE IF j = 1 THEN (byte(3 * g - 2) % 4) * 16 + byte(3 * g - 1) \div 16
                    ELSE IF j = 2 THEN (byte(3 * g - 1) % 16) * 4 + byte(3 * g) \div 64
                    ELSE byte(3 * g) % 64
                char(i) ==
                    LET g == (i - 1) \div 4 + 1
                        j == (i - 1) % 4
                    IN IF (j = 2 /\ 3 * g - 1 > n) \/ (j = 3 /\ 3 * g > n) THEN 61
                       ELSE B64Char(sextet(g, j))
            IN [i \in 1..(4 * ((n + 2) \div 3)) |-> char(i)] \o <<>>
    IN Eval(bytes, Encoded)

\* base64.b64decode(text, validate=True)
b64decode(text) ==
    LET n == Len(text)
        pad == IF n >= 1 /\ text[n] = 61
               THEN (IF n >= 2 /\ text[n - 1] = 61 THEN 2 ELSE 1)
               ELSE 0
        v(i) == IF i > n - pad THEN 0 ELSE B64Val(text[i])
        byte(k) ==
            LET g == (k - 1) \div 3
                r == (k - 1) % 3
            IN IF r = 0 THEN v(4 * g + 1) * 4 + v(4 * g + 2) \div 16
               ELSE IF r = 1 THEN (v(4 * g + 2) % 16) * 16 + v(4 * g + 3) \div 4
               ELSE (v(4 * g + 3) % 4) * 64 + v(4 * g + 4)
    IN IF n % 4 # 0 \/ (\E i \in 1..(n - pad) : B64Val(text[i]) < 0)
       THEN [raised |-> Raise("binascii.Error", "invalid base64"), bytes |-> <<>>]
       ELSE [raised |-> <<>>,
             bytes |-> [k \in 1..((n \div 4) * 3 - pad) |-> byte(k)] \o <<>>]

\* Frame.to_bytes
to_bytes(f) ==
    LET header ==
            MAGIC \o <<VERSION, f.frame_type, f.flags % 256>> \o f.session_id
            \o PackI(f.superblock_id) \o PackI(f.block_id) \o PackI(f.total_blocks)
            \o PackH(f.blocks_in_super) \o PackH(Len(f.payload))
    IN IF Len(f.session_id) # 16
       THEN [raised |-> Raise("FrameError", "session_id must be 16 bytes"), bytes |-> <<>>]
       ELSE IF Len(f.payload) > 65535
       THEN [raised |-> Raise("FrameError", "payload too large for frame"), bytes |-> <<>>]
       ELSE IF \/ f.frame_type < 0 \/ f.frame_type > 255
               \/ f.superblock_id < 0 \/ f.block_id < 0 \/ f.total_blocks < 0
               \/ f.blocks_in_super < 0 \/ f.blocks_in_super > 65535
       THEN [raised |-> Raise("struct.error", "argument out of range"), bytes |-> <<>>]
       ELSE [raised |-> <<>>, bytes |-> header \o f.payload \o crc32(header \o f.payload)]

\* Frame.from_bytes
from_bytes(data) ==
    LET header == SubSeq(data, 1, HEADER_SIZE)
        magic == SubSeq(header, 1, 4)
        version == header[5]
        frame_type == header[6]
        flags == header[7]
        sid == SubSeq(header, 8, 23)
        sb == UnpackI(SubSeq(header, 24, 27))
        bid == UnpackI(SubSeq(header, 28, 31))
        total_blocks == UnpackI(SubSeq(header, 32, 35))
        blocks_in_super == UnpackH(SubSeq(header, 36, 37))
        payload_len == UnpackH(SubSeq(header, 38, 39))
        expected_len == HEADER_SIZE + payload_len + CRC_SIZE
        pl == SubSeq(data, HEADER_SIZE + 1, HEADER_SIZE + payload_len)
        crc_stored == SubSeq(data, Len(data) - CRC_SIZE + 1, Len(data))
        crc_calc == crc32(header \o pl)
        Fail(exc, msg) == [raised |-> Raise(exc, msg), frame |-> <<>>]
    IN IF Len(data) < HEADER_SIZE + CRC_SIZE THEN Fail("FrameError", "frame too short")
       ELSE IF magic # MAGIC THEN Fail("FrameError", "bad magic")
       ELSE IF version # VERSION THEN Fail("FrameError", "unsupported version")
       ELSE IF Len(data) # expected_len THEN Fail("FrameError", "frame length mismatch")
       ELSE IF crc_calc # crc_stored THEN Fail("FrameError", "CRC mismatch")
       ELSE IF frame_type \notin FrameTypes
       THEN Fail("ValueError", "not a valid FrameType")
       ELSE [raised |-> <<>>,
             frame |-> <<Frame(frame_type, sid, sb, bid, total_blocks, blocks_in_super,
                               flags, pl)>>]

\* Frame.to_b64
to_b64(f) ==
    LET Encoded(r) ==
            IF r.raised # <<>> THEN [raised |-> r.raised, text |-> <<>>]
            ELSE [raised |-> <<>>, text |-> b64encode(r.bytes)]
    IN Eval(to_bytes(f), Encoded)

\* Frame.from_b64
from_b64(text) ==
    LET Parsed(r) ==
            IF r.raised # <<>>
            THEN [raised |-> Raise("FrameError", "base64 decode failed"), frame |-> <<>>]
            ELSE from_bytes(r.bytes)
    IN Eval(b64decode(text), Parsed)

-----------------------------------------------------------------------------
(* sender.py: generate_frames, one action per resumption of the generator *)

SenderMeta ==
    build_metadata(Len(payload), cfg.chunk_size, cfg.superblock_data, cfg.redundancy,
                   sha256(payload), SidA)

_header_frame(m) ==
    Frame(SESSION_HEADER, m.session_id, 0, 0, m.total_chunks, 0, 0, json_dumps(m))

\* mutant: the loop over range(superblock_data) runs once too often
RECURSIVE ReadBlocks_one_more(_, _, _, _)
ReadBlocks_one_more(file, pos, chunk_size, n) ==
    LET chunk == ReadChunk(file, pos, chunk_size)
    IN IF n < 0 \/ chunk = <<>> THEN <<>>
       ELSE <<chunk>> \o ReadBlocks_one_more(file, pos + Len(chunk), chunk_size, n - 1)

\* for _ in range(meta.superblock_data): block = next(chunk_iter) ...
RECURSIVE ReadBlocks(_, _, _, _)
ReadBlocks(file, pos, chunk_size, n) ==
    LET chunk == ReadChunk(file, pos, chunk_size)
    IN IF n <= 0 \/ chunk = <<>> THEN <<>>
       ELSE <<chunk>> \o ReadBlocks(file, pos + Len(chunk), chunk_size, n - 1)

RECURSIVE TotalLen(_)
TotalLen(blocks) == IF blocks = <<>> THEN 0 ELSE Len(Head(blocks)) + TotalLen(Tail(blocks))

\* for _ in range(max(1, header_repeat)): yield header
YieldInitialHeader ==
    /\ tx_pc = "headers"
    /\ emitted' = Append(emitted, _header_frame(SenderMeta))
    /\ tx_i' = tx_i + 1
    /\ tx_pc' = IF tx_i + 1 < Max(1, cfg.header_repeat) THEN "headers" ELSE "read"
    /\ UNCHANGED <<payload, cfg, block_id, superblock_id, chunk_pos, tx_blocks>>

\* mutant: an empty read goes back to the top of the loop instead of leaving it
ReadSuperblock_continue ==
    /\ tx_pc = "read"
    /\ LET blocks == ReadBlocks(payload, chunk_pos, cfg.chunk_size, cfg.superblock_data)
       IN /\ tx_blocks' = blocks
          /\ chunk_pos' = chunk_pos + TotalLen(blocks)
          /\ tx_pc' = IF blocks = <<>> THEN "read" ELSE "data"
    /\ tx_i' = 0
    /\ UNCHANGED <<payload, cfg, block_id, superblock_id, emitted>>

\* top of the while loop: read up to superblock_data chunks; none ends the session
ReadSuperblock ==
    /\ tx_pc = "read"
    /\ LET blocks == ReadBlocks(payload, chunk_pos, cfg.chunk_size, cfg.superblock_data)
       IN /\ tx_blocks' = blocks
          /\ chunk_pos' = chunk_pos + TotalLen(blocks)
          /\ tx_pc' = IF blocks = <<>> THEN "done" ELSE "data"
    /\ tx_i' = 0
    /\ UNCHANGED <<payload, cfg, block_id, superblock_id, emitted>>

\* for local_idx, block in enumerate(data_blocks): yield DATA frame; block_id += 1
YieldData ==
    /\ tx_pc = "data"
    /\ emitted' = Append(emitted,
           Frame(DATA, SenderMeta.session_id, superblock_id, block_id,
                 SenderMeta.total_chunks, Len(tx_blocks), 0, tx_blocks[tx_i + 1]))
    /\ block_id' = block_id + 1
    /\ tx_i' = IF tx_i + 1 < Len(tx_blocks) THEN tx_i + 1 ELSE 0
    /\ tx_pc' = IF tx_i + 1 < Len(tx_blocks) THEN "data" ELSE "parity"
    /\ UNCHANGED <<payload, cfg, superblock_id, chunk_pos, tx_blocks>>

\* for parity_idx, parity in enumerate(parity_blocks): yield FEC frame
YieldParity ==
    /\ tx_pc = "parity"
    /\ LET parity == generate_parity_blocks(tx_blocks, SenderMeta.redundancy)
       IN /\ tx_i < Len(parity)
          /\ emitted' = Append(emitted,
                 Frame(FEC, SenderMeta.session_id, superblock_id, block_id + tx_i,
                       SenderMeta.total_chunks, Len(tx_blocks), 0, parity[tx_i + 1]))
    /\ tx_i' = tx_i + 1
    /\ UNCHANGED <<payload, cfg, tx_pc, block_id, superblock_id, chunk_pos, tx_blocks>>

\* mutant: the resync test looks at the superblock counter, not at block_id
EndSuperblock_by_superblock ==
    /\ tx_pc = "parity"
    /\ tx_i >= Len(generate_parity_blocks(tx_blocks, SenderMeta.redundancy))
    /\ superblock_id' = superblock_id + 1
    /\ emitted' = IF cfg.header_interval > 0
                      /\ ((superblock_id + 1) % cfg.header_interval) = 0
                  THEN Append(emitted, _header_frame(SenderMeta))
                  ELSE emitted
    /\ tx_pc' = "read"
    /\ tx_i' = 0
    /\ UNCHANGED <<payload, cfg, block_id, chunk_pos, tx_blocks>>

\* superblock_id += 1; the periodic header for resync; back to the top of the loop
EndSuperblock ==
    /\ tx_pc = "parity"
    /\ tx_i >= Len(generate_parity_blocks(tx_blocks, SenderMeta.redundancy))
    /\ superblock_id' = superblock_id + 1
    /\ emitted' = IF cfg.header_interval > 0 /\ (block_id % cfg.header_interval) = 0
                  THEN Append(emitted, _header_frame(SenderMeta))
                  ELSE emitted
    /\ tx_pc' = "read"
    /\ tx_i' = 0
    /\ UNCHANGED <<payload, cfg, block_id, chunk_pos, tx_blocks>>

SenderStep ==
    /\ \/ YieldInitialHeader
       \/ ReadSuperblock
       \/ YieldData
       \/ YieldParity
       \/ EndSuperblock
    /\ UNCHANGED <<chvars, rxvars, psvars, cdvars, mainvars, fecvars>>

-----------------------------------------------------------------------------
(* receiver.py: Reassembler, as operators on the record of its fields *)

Reassembler(m, sid, db, pb, hs) ==
    [meta |-> m, session_id |-> sid, data_blocks |-> db, parity_blocks |-> pb,
     headers_seen |-> hs]

\* Reassembler.__init__
NewReassembler == Reassembler(<<>>, <<>>, <<>>, <<>>, 0)

\* mutant: the recovered block is kept at the parity block's length
SliceTo_whole(b, n) == b

\* b[:n], n of either sign
SliceTo(b, n) == IF n >= 0 THEN SubSeq(b, 1, Min(n, Len(b))) ELSE SubSeq(b, 1, Max(Len(b) + n, 0))

\* mutant: every block is expected to be chunk_size long
_expected_len_chunk_size(R, bid) == R.meta[1].chunk_size

_expected_len(R, bid) ==
    LET m == R.meta[1]
    IN IF bid < m.total_chunks - 1 THEN m.chunk_size
       ELSE m.total_size - m.chunk_size * (m.total_chunks - 1)

_maybe_recover(R, sb) ==
    IF R.meta = <<>> THEN R
    ELSE
    LET m == R.meta[1]
        start == sb * m.superblock_data
        end == Min(start + m.superblock_data, m.total_chunks)
        indices == Range(start, end)
        Missing(i) == i \notin DOMAIN R.data_blocks
        Present(i) == i \in DOMAIN R.data_blocks
        missing == SelectSeq(indices, Missing)
        present == SelectSeq(indices, Present)
        parity == IF sb \in DOMAIN R.parity_blocks THEN R.parity_blocks[sb] ELSE <<>>
        recovered == recover_single_missing(
                         [k \in 1..Len(present) |-> R.data_blocks[present[k]]],
                         parity[1], Len(missing))
    IN IF missing = <<>> THEN R
       ELSE IF parity = <<>> THEN R
       ELSE IF recovered = <<>> THEN R
       ELSE [R EXCEPT !.data_blocks =
                Put(@, missing[1], SliceTo(recovered[1], _expected_len(R, missing[1])))]

\* mutant: a header is adopted whatever its session_id
_handle_header_any_session(R, frame) ==
    LET parsed == from_dict(frame.payload)
    IN IF parsed = <<>> THEN R
       ELSE [R EXCEPT !.session_id = frame.session_id,
                      !.meta = parsed,
                      !.headers_seen = @ + 1]

\* mutant: a header whose payload does not parse still sets the session_id
_handle_header_id_first(R, frame) ==
    LET parsed == from_dict(frame.payload)
    IN IF R.session_id # <<>> /\ frame.session_id # R.session_id THEN R
       ELSE IF parsed = <<>> THEN [R EXCEPT !.session_id = frame.session_id]
       ELSE [R EXCEPT !.session_id = frame.session_id,
                      !.meta = parsed,
                      !.headers_seen = @ + 1]

_handle_header(R, frame) ==
    LET parsed == from_dict(frame.payload)
    IN IF parsed = <<>> THEN R
       ELSE IF R.session_id # <<>> /\ frame.session_id # R.session_id THEN R
       ELSE [R EXCEPT !.session_id = frame.session_id,
                      !.meta = parsed,
                      !.headers_seen = @ + 1]

\* mutant: DATA and FEC frames are taken before a header was adopted, and an
\* INDEX frame counts as a header seen
ingest_without_header(R, frame) ==
    IF frame.frame_type = SESSION_HEADER THEN _handle_header(R, frame)
    ELSE IF R.session_id # <<>> /\ frame.session_id # R.session_id THEN R
    ELSE IF frame.frame_type = DATA THEN
        IF frame.block_id \notin DOMAIN R.data_blocks
        THEN _maybe_recover([R EXCEPT !.data_blocks = Put(@, frame.block_id, frame.payload)],
                            frame.superblock_id)
        ELSE R
    ELSE IF frame.frame_type = FEC THEN
        _maybe_recover(
            [R EXCEPT !.parity_blocks =
                Put(@, frame.superblock_id,
                    Append(IF frame.superblock_id \in DOMAIN @ THEN @[frame.superblock_id]
                           ELSE <<>>, frame.payload))],
            frame.superblock_id)
    ELSE [R EXCEPT !.headers_seen = @ + 1]

\* mutant: a DATA frame is stored whether or not its block_id is already held
ingest_overwrite(R, frame) ==
    IF frame.frame_type = SESSION_HEADER THEN _handle_header(R, frame)
    ELSE IF R.session_id # <<>> /\ frame.session_id # R.session_id THEN R
    ELSE IF R.meta = <<>> THEN R
    ELSE IF frame.frame_type = DATA THEN
        _maybe_recover([R EXCEPT !.data_blocks = Put(@, frame.block_id, frame.payload)],
                       frame.superblock_id)
    ELSE IF frame.frame_type = FEC THEN
        _maybe_recover(
            [R EXCEPT !.parity_blocks =
                Put(@, frame.superblock_id,
                    Append(IF frame.superblock_id \in DOMAIN @ THEN @[frame.superblock_id]
                           ELSE <<>>, frame.payload))],
            frame.superblock_id)
    ELSE R

ingest(R, frame) ==
    IF frame.frame_type = SESSION_HEADER THEN _handle_header(R, frame)
    ELSE IF R.session_id # <<>> /\ frame.session_id # R.session_id THEN R
    ELSE IF R.meta = <<>> THEN R
    ELSE IF frame.frame_type = DATA THEN
        IF frame.block_id \notin DOMAIN R.data_blocks
        THEN _maybe_recover([R EXCEPT !.data_blocks = Put(@, frame.block_id, frame.payload)],
                            frame.superblock_id)
        ELSE R
    ELSE IF frame.frame_type = FEC THEN
        _maybe_recover(
            [R EXCEPT !.parity_blocks =
                Put(@, frame.superblock_id,
                    Append(IF frame.superblock_id \in DOMAIN @ THEN @[frame.superblock_id]
                           ELSE <<>>, frame.payload))],
            frame.superblock_id)
    ELSE R

is_complete(R) ==
    /\ R.meta # <<>>
    /\ Cardinality(DOMAIN R.data_blocks) >= (IF R.meta # <<>> THEN R.meta[1].total_chunks ELSE 0)

\* the bytes written before write_payload returns or raises
RECURSIVE WriteBlocks(_, _, _)
WriteBlocks(db, idx, total) ==
    IF idx >= total \/ idx \notin DOMAIN db THEN <<>>
    ELSE db[idx] \o WriteBlocks(db, idx + 1, total)

\* raised: <<>> on return, <<"RuntimeError">> when it raises; file: <<>> when no
\* file was opened, <<bytes>> the content of the file otherwise
write_payload(R) ==
    IF R.meta = <<>> THEN [raised |-> <<"RuntimeError">>, file |-> <<>>]
    ELSE LET total == R.meta[1].total_chunks
             Absent(i) == i \notin DOMAIN R.data_blocks
         IN [raised |-> IF SelectSeq(Range(0, total), Absent) # <<>>
                        THEN <<"RuntimeError">> ELSE <<>>,
             file |-> <<WriteBlocks(R.data_blocks, 0, total)>>]

\* the Reassembler of the current state
Rx == Reassembler(meta, session_id, data_blocks, parity_blocks, headers_seen)

SetRx(R) ==
    /\ meta' = R.meta
    /\ session_id' = R.session_id
    /\ data_blocks' = R.data_blocks
    /\ parity_blocks' = R.parity_blocks
    /\ headers_seen' = R.headers_seen

-----------------------------------------------------------------------------
(* The optical channel and the capture loop's calls of Reassembler.ingest.  *)
(* A frame the camera never sees is one that is never delivered.            *)

Delivered == early \cup post

\* where a delivery of frame f is recorded: post when f's session is the adopted
\* one once f has been handled, early otherwise
Lands(R, f) == IF ingest(R, f).session_id = f.session_id THEN "post" ELSE "early"

\* the capture loop decodes emitted frame i for the first time
Deliver(i) ==
    /\ i \in 1..Len(emitted)
    /\ i \notin Delivered
    /\ SetRx(ingest(Rx, emitted[i]))
    /\ early' = IF Lands(Rx, emitted[i]) = "early" THEN early \cup {i} ELSE early
    /\ post' = IF Lands(Rx, emitted[i]) = "post" THEN post \cup {i} ELSE post
    /\ UNCHANGED <<txvars, extra, psvars, cdvars, mainvars, fecvars>>

\* the capture loop decodes emitted frame i once more (it stays on screen for
\* several captured images)
Redeliver(i) ==
    /\ i \in Delivered
    /\ extra < MaxExtra
    /\ extra' = extra + 1
    /\ SetRx(ingest(Rx, emitted[i]))
    /\ early' = IF Lands(Rx, emitted[i]) = "early" THEN early \cup {i} ELSE early
    /\ post' = IF Lands(Rx, emitted[i]) = "post" THEN post \cup {i} ELSE post
    /\ UNCHANGED <<txvars, psvars, cdvars, mainvars, fecvars>>

\* frames of another transmission (session id SidB) that the camera may see
OtherMeta == build_metadata(3, 2, 2, 1, sha256(<<9, 9, 9>>), SidB)
OtherFrames ==
    { _header_frame(OtherMeta),
      Frame(DATA, SidB, 0, 0, 2, 2, 0, <<9, 9>>),
      Frame(DATA, SidB, 0, 1, 2, 2, 0, <<9>>),
      Frame(FEC, SidB, 0, 2, 2, 2, 0, <<0, 9>>),
      Frame(INDEX, SidB, 0, 0, 2, 0, 0, <<>>) }

IngestOther(f) ==
    /\ extra < MaxExtra
    /\ extra' = extra + 1
    /\ SetRx(ingest(Rx, f))
    /\ UNCHANGED <<txvars, early, post, psvars, cdvars, mainvars, fecvars>>

-----------------------------------------------------------------------------
(* Specification: one session sent through the channel to one Reassembler *)

PayloadOf(n) == [i \in 1..n |-> (85 * i) % 256]
Payloads == {PayloadOf(n) : n \in 0..MaxSize}

Configs ==
    [chunk_size : {2}, superblock_data : {2, 3}, redundancy : {0, 1},
     header_repeat : {1}, header_interval : {0, 2}]

InitSession(P, C) ==
    /\ payload \in P
    /\ cfg \in C
    /\ tx_pc = "headers"
    /\ tx_i = 0
    /\ block_id = 0
    /\ superblock_id = 0
    /\ chunk_pos = 0
    /\ tx_blocks = <<>>
    /\ emitted = <<>>
    /\ early = {}
    /\ post = {}
    /\ extra = 0
    /\ meta = NewReassembler.meta
    /\ session_id = NewReassembler.session_id
    /\ data_blocks = NewReassembler.data_blocks
    /\ parity_blocks = NewReassembler.parity_blocks
    /\ headers_seen = NewReassembler.headers_seen
    /\ wire = <<>>
    /\ ps_pc = "capture"
    /\ ps_data = <<>>
    /\ ps_kind = "none"
    /\ ps_last = <<>>
    /\ ps_n = 0
    /\ ps_exc = <<>>
    /\ fs_tmp = <<>>
    /\ fs_out = <<>>
    /\ cf = <<>>
    /\ cf_text = <<>>
    /\ cf_back = <<>>
    /\ main_exc = <<>>

\* no call of the fec functions on their own is under way
FecIdle ==
    /\ fec_blocks = <<>>
    /\ fec_op = <<>>
    /\ fec_result = <<>>

\* main has staged the payload and is inside its try block
MainRendering ==
    /\ main_pc = "rendering"
    /\ main_args = [no_display |-> FALSE, video_output |-> FALSE, input_ok |-> TRUE]
    /\ tmp_file = TRUE

\* the state in which main has staged the payload and entered its try block
InitWith(P, C) ==
    /\ InitSession(P, C)
    /\ MainRendering
    /\ FecIdle

Init == InitWith(Payloads, Configs)

Next ==
    \/ SenderStep
    \/ \E i \in 1..Len(emitted) : Deliver(i)
    \/ \E i \in 1..Len(emitted) : Redeliver(i)
    \/ \E f \in OtherFrames : IngestOther(f)

Spec == Init /\ [][Next]_vars

-----------------------------------------------------------------------------
(* Vocabulary of the properties *)

\* the blocks of the prepared payload, as the chunker cuts them: block b is Chunks[b + 1]
Chunks == iter_chunks(payload, 0, cfg.chunk_size)

IndicesOfType(t) == {i \in 1..Len(emitted) : emitted[i].frame_type = t}
SessionOver == tx_pc = "done"

\* the block ids of superblock s, and the superblocks of the session
BlocksOf(s) ==
    {b \in 0..(Len(Chunks) - 1) : b \div cfg.superblock_data = s}
Superblocks == {b \div cfg.superblock_data : b \in 0..(Len(Chunks) - 1)}

\* block ids whose DATA frame was ingested with the session adopted, and superblocks
\* of which an FEC frame was
DataIngested == {emitted[i].block_id : i \in post \cap IndicesOfType(DATA)}
FecIngested == {emitted[i].superblock_id : i \in post \cap IndicesOfType(FEC)}

Reassembled == [raised |-> <<>>, file |-> <<payload>>]

\* every emitted frame was fed to ingest exactly once, and nothing else was
FedAsPermutation ==
    /\ SessionOver
    /\ Delivered = 1..Len(emitted)
    /\ extra = 0

-----------------------------------------------------------------------------
(* C1 (as stated): after any permutation of the complete frame sequence of a *)
(* session has been fed to ingest, the reassembler is complete and           *)
(* write_payload produces exactly the prepared payload.                      *)
C1_OrderIndependence ==
    FedAsPermutation => (is_complete(Rx) /\ write_payload(Rx) = Reassembled)

(* C1 (amended): after any permutation of the complete frame sequence in     *)
(* which a SESSION_HEADER frame precedes every DATA frame, the reassembler   *)
(* is complete and write_payload produces exactly the prepared payload.      *)
C1_OrderIndependenceAfterHeader ==
    (FedAsPermutation /\ early \cap IndicesOfType(DATA) = {})
        => (is_complete(Rx) /\ write_payload(Rx) = Reassembled)

\* an out-of-order feed: a parity frame came before the header, and no DATA did
C1_Witness ==
    /\ FedAsPermutation
    /\ early \cap IndicesOfType(DATA) = {}
    /\ early \cap IndicesOfType(FEC) # {}
    /\ Len(Chunks) >= 3
    /\ write_payload(Rx) = Reassembled

(* C2: parity recovery.  When, with the session adopted, every DATA frame of *)
(* a superblock but one and at least one FEC frame of it have been ingested, *)
(* the missing block is stored, byte for byte the original block (so of its  *)
(* own length, also when it is the short last block).                        *)
C2_ParityRecovery ==
    \A s \in Superblocks : \A m \in BlocksOf(s) :
        (/\ BlocksOf(s) \ DataIngested = {m}
         /\ s \in FecIngested)
        => (m \in DOMAIN data_blocks /\ data_blocks[m] = Chunks[m + 1])

\* the short last block of the payload was recovered from parity, in a
\* superblock of more than one block
C2_Witness ==
    \E s \in Superblocks :
        LET m == Len(Chunks) - 1
        IN /\ m \in BlocksOf(s)
           /\ Cardinality(BlocksOf(s)) >= 2
           /\ Len(Chunks[m + 1]) < cfg.chunk_size
           /\ BlocksOf(s) \ DataIngested = {m}
           /\ s \in FecIngested
           /\ m \in DOMAIN data_blocks

(* C3: two-missing non-recovery.  While two or more DATA frames of a         *)
(* superblock have not been ingested, none of their block ids is in          *)
(* data_blocks, whatever the number of FEC frames ingested.                  *)
C3_TwoMissingNoRecovery ==
    session_id = SidA =>
        \A s \in Superblocks :
            Cardinality(BlocksOf(s) \ DataIngested) >= 2
                => (BlocksOf(s) \ DataIngested) \cap DOMAIN data_blocks = {}

\* two blocks of a superblock missing, one present, and two parity copies stored
C3_Witness ==
    /\ session_id = SidA
    /\ \E s \in Superblocks :
          /\ Cardinality(BlocksOf(s) \ DataIngested) = 2
          /\ BlocksOf(s) \cap DataIngested # {}
          /\ s \in DOMAIN parity_blocks
          /\ Len(parity_blocks[s]) >= 2

(* C4: reassembly completeness.  For a payload of more than 0 bytes, once    *)
(* the header is adopted and every DATA frame has been ingested exactly once *)
(* and no FEC frame at all, is_complete() holds and write_payload writes the *)
(* payload byte for byte, with the digest the header announced.              *)
C4_ReassemblyComplete ==
    (/\ Len(payload) > 0
     /\ SessionOver
     /\ extra = 0
     /\ IndicesOfType(DATA) \subseteq post
     /\ IndicesOfType(FEC) \cap Delivered = {})
    => (/\ is_complete(Rx)
        /\ write_payload(Rx) = Reassembled
        /\ sha256(write_payload(Rx).file[1]) = meta[1].sha256)

\* several blocks, the last one short, parity sent but never received
C4_Witness ==
    /\ Len(Chunks) >= 3
    /\ Len(Chunks[Len(Chunks)]) < cfg.chunk_size
    /\ SessionOver
    /\ extra = 0
    /\ IndicesOfType(DATA) \subseteq post
    /\ IndicesOfType(FEC) # {}
    /\ IndicesOfType(FEC) \cap Delivered = {}
    /\ is_complete(Rx)

(* C6: cross-session isolation.  Once a session is adopted, ingesting a      *)
(* frame of any type whose session_id differs from the adopted one leaves    *)
(* meta, session_id, data_blocks, parity_blocks and headers_seen unchanged.  *)
C6_CrossSessionIsolation ==
    session_id # <<>> =>
        \A f \in OtherFrames \cup {emitted[i] : i \in 1..Len(emitted)} :
            f.session_id # session_id => ingest(Rx, f) = Rx

\* the other session is adopted and a parseable header of the sender's session
\* has since been ingested
C6_Witness ==
    /\ session_id = SidB
    /\ early \cap IndicesOfType(SESSION_HEADER) # {}

-----------------------------------------------------------------------------
(* Specification with frames that bear the sender's session_id but are not  *)
(* the sender's: a header whose JSON describes the session differently, and *)
(* a header whose payload is the JSON text {} (from_dict raises KeyError)   *)

SameSessionFrames ==
    { Frame(SESSION_HEADER, SidA, 0, 0, 1, 0, 0,
            json_dumps([SenderMeta EXCEPT !.total_size = 1, !.total_chunks = 1])),
      Frame(SESSION_HEADER, SidA, 0, 0, 0, 0, 0, <<123, 125>>) }

IngestSameSession(f) ==
    /\ extra < MaxExtra
    /\ extra' = extra + 1
    /\ SetRx(ingest(Rx, f))
    /\ UNCHANGED <<txvars, early, post, psvars, cdvars, mainvars, fecvars>>

AdvConfigs ==
    [chunk_size : {2}, superblock_data : {2}, redundancy : {1},
     header_repeat : {1}, header_interval : {0}]

InitAdv == InitWith(Payloads, AdvConfigs)

NextAdv ==
    \/ Next
    \/ \E f \in SameSessionFrames : IngestSameSession(f)

SpecAdv == InitAdv /\ [][NextAdv]_vars

(* C5: header idempotence, first header wins.  Once a session is adopted, a  *)
(* step that accepts a further SESSION_HEADER of the same session_id (the    *)
(* header counter grows) leaves the adopted metadata, data_blocks and        *)
(* parity_blocks as they were.                                               *)
C5_FirstHeaderWins ==
    [][(session_id # <<>> /\ headers_seen' > headers_seen)
          => (meta' = meta /\ data_blocks' = data_blocks /\ parity_blocks' = parity_blocks)]_vars

-----------------------------------------------------------------------------
(* The receiver reading a recorded transmission: sender.frames_to_qr_strings *)
(* renders every frame as base64 text, and receiver.process_stream takes the *)
(* text of one QR code per captured image.  What the detector returns is the *)
(* rendered text or a text differing from it in one of the ways of Kinds.    *)

MaxCaptured == 3    \* texts taken from captured images

\* frames_to_qr_strings: [f.to_b64() for f in frames]
Render ==
    /\ Len(wire) < Len(emitted)
    /\ \E r \in {to_b64(emitted[Len(wire) + 1])} :
          /\ r.raised = <<>>
          /\ wire' = Append(wire, r.text)
    /\ UNCHANGED <<txvars, chvars, rxvars, cdvars, mainvars, fecvars, ps_pc, ps_data, ps_kind, ps_last, ps_n,
                   ps_exc, fs_tmp, fs_out>>

\* the serialised frame with its frame_type byte replaced and the CRC recomputed
Retype(bytes, t) ==
    LET body == [SubSeq(bytes, 1, Len(bytes) - CRC_SIZE) EXCEPT ![6] = t]
    IN body \o crc32(body)

\* the serialised frame with its last payload byte changed and the CRC recomputed
Rewrite(bytes) ==
    LET k == Len(bytes) - CRC_SIZE
        body == [SubSeq(bytes, 1, k) EXCEPT ![k] = Xor8(bytes[k], 1)]
    IN body \o crc32(body)

\* kinds whose bytes fail one of the checks of from_bytes
RejectedKinds ==
    {"short", "magic", "version", "declared_len", "appended", "field", "payload", "crc"}

\* "rewritten" is a frame of the session with other payload bytes and a CRC that
\* matches them
Kinds ==
    {"intact", "empty", "not_base64", "truncated_text", "unknown_type", "rewritten"}
        \cup RejectedKinds

Distort(text, kind) ==
    LET Altered(b) ==
            CASE kind = "intact" -> text
              [] kind = "empty" -> <<>>
              [] kind = "not_base64" -> [text EXCEPT ![1] = 42]
              [] kind = "truncated_text" -> SubSeq(text, 1, Len(text) - 1)
              [] kind = "short" -> b64encode(SubSeq(b, 1, HEADER_SIZE + CRC_SIZE - 1))
              [] kind = "magic" -> b64encode([b EXCEPT ![1] = 88])
              [] kind = "version" -> b64encode([b EXCEPT ![5] = VERSION + 1])
              [] kind = "declared_len" -> b64encode([b EXCEPT ![39] = (b[39] + 1) % 256])
              [] kind = "appended" -> b64encode(b \o <<0>>)
              [] kind = "field" -> b64encode([b EXCEPT ![31] = (b[31] + 1) % 256])
              [] kind = "payload" ->
                     b64encode([b EXCEPT ![HEADER_SIZE + 1] = Xor8(b[HEADER_SIZE + 1], 1)])
              [] kind = "crc" -> b64encode([b EXCEPT ![Len(b)] = (b[Len(b)] + 1) % 256])
              [] kind = "unknown_type" -> b64encode(Retype(b, 4))
              [] kind = "rewritten" -> b64encode(Rewrite(b))
    IN Eval(b64decode(text).bytes, Altered)

\* ret, frame = cap.read(); detectAndDecodeMulti; for data in decoded_info
Capture(i, kind) ==
    /\ ps_pc = "capture"
    /\ tx_pc = "done"
    /\ Len(wire) = Len(emitted)
    /\ i \in 1..Len(wire)
    /\ ps_n < MaxCaptured
    /\ ps_n' = ps_n + 1
    /\ ps_data' = Distort(wire[i], kind)
    /\ ps_kind' = kind
    /\ ps_pc' = "decode"
    /\ UNCHANGED <<txvars, chvars, rxvars, cdvars, mainvars, fecvars, wire, ps_last, ps_exc, fs_tmp, fs_out>>

\* the body of the for loop, for the one text of the image
ProcessPayload ==
    /\ ps_pc = "decode"
    /\ ps_data' = <<>>
    /\ ps_kind' = "none"
    /\ IF ps_data = <<>>
       THEN \* if not data: continue
            /\ ps_last' = <<"skipped">>
            /\ ps_pc' = "report"
            /\ UNCHANGED <<rxvars, ps_exc>>
       ELSE \E r \in {from_b64(ps_data)} :
               IF r.raised = <<>>
               THEN /\ SetRx(ingest(Rx, r.frame[1]))
                    /\ ps_last' = <<"ingested">>
                    /\ ps_pc' = "report"
                    /\ UNCHANGED ps_exc
               ELSE IF r.raised[1].exc = "FrameError"
               THEN \* except FrameError: continue
                    /\ ps_last' = <<r.raised[1].exc, r.raised[1].msg>>
                    /\ ps_pc' = "report"
                    /\ UNCHANGED <<rxvars, ps_exc>>
               ELSE \* no handler: the exception leaves process_stream
                    /\ ps_last' = <<r.raised[1].exc, r.raised[1].msg>>
                    /\ ps_exc' = <<r.raised[1].exc, r.raised[1].msg>>
                    /\ ps_pc' = "raised"
                    /\ UNCHANGED rxvars
    /\ UNCHANGED <<txvars, chvars, cdvars, mainvars, fecvars, wire, ps_n, fs_tmp, fs_out>>

\* Reassembler.progress: the text, here the two counts and the tenths of a percent
progress(R) ==
    IF R.meta = <<>> THEN [raised |-> <<>>, text |-> <<"waiting for header">>]
    ELSE IF R.meta[1].total_chunks = 0
    THEN [raised |-> Raise("ZeroDivisionError", "division by zero"), text |-> <<>>]
    ELSE [raised |-> <<>>,
          text |-> <<Cardinality(DOMAIN R.data_blocks), R.meta[1].total_chunks,
                     (Cardinality(DOMAIN R.data_blocks) * 1000) \div R.meta[1].total_chunks>>]

\* the end of one turn of the while loop: the progress report when more than a
\* second has passed since the last one (due), then the is_complete test
ReportProgress(due) ==
    /\ ps_pc = "report"
    /\ IF due /\ progress(Rx).raised # <<>>
       THEN /\ ps_exc' = <<progress(Rx).raised[1].exc, progress(Rx).raised[1].msg>>
            /\ ps_pc' = "raised"
       ELSE /\ ps_pc' = IF is_complete(Rx) THEN "ended" ELSE "capture"
            /\ UNCHANGED ps_exc
    /\ UNCHANGED <<txvars, chvars, rxvars, cdvars, mainvars, fecvars, wire, ps_data, ps_kind, ps_last, ps_n,
                   fs_tmp, fs_out>>

\* if not ret: break
EndOfVideo ==
    /\ ps_pc = "capture"
    /\ tx_pc = "done"
    /\ Len(wire) = Len(emitted)
    /\ ps_pc' = "ended"
    /\ UNCHANGED <<txvars, chvars, rxvars, cdvars, mainvars, fecvars, wire, ps_data, ps_kind, ps_last, ps_n,
                   ps_exc, fs_tmp, fs_out>>

-----------------------------------------------------------------------------
(* receiver.py: the statements of process_stream after the capture loop, and *)
(* extract_payload.  A gzip stream and a tar archive are stand-ins that keep *)
(* what the receiver depends on: a magic number, content that differs from   *)
(* the bytes packed, and a failure to unpack anything else.                  *)

GzipMagic == <<31, 139>>
TarMagic == <<117, 115, 116, 97, 114>>      \* "ustar"

\* gzip.compress: magic, the bytes transformed, the length modulo 256
gzip_compress(b) == GzipMagic \o [i \in 1..Len(b) |-> (b[i] + 1) % 256] \o <<Len(b) % 256>>

\* gzip.open(path, "rb") read to the end
gunzip(b) ==
    IF Len(b) < 3 \/ SubSeq(b, 1, 2) # GzipMagic \/ b[Len(b)] # (Len(b) - 3) % 256
    THEN [raised |-> Raise("BadGzipFile", "not a gzipped file"), bytes |-> <<>>]
    ELSE [raised |-> <<>>, bytes |-> [i \in 1..(Len(b) - 3) |-> (b[i + 2] + 255) % 256]]

\* tarfile.open(mode="w:") with one member
tar_pack(b) == TarMagic \o b

\* tarfile.open(path, "r:*").extractall: the member's bytes; "r:*" also reads a
\* gzipped archive
untar(b) ==
    LET plain == IF gunzip(b).raised = <<>> THEN gunzip(b).bytes ELSE b
    IN IF Len(plain) < Len(TarMagic) \/ SubSeq(plain, 1, Len(TarMagic)) # TarMagic
       THEN [raised |-> Raise("ReadError", "file could not be opened successfully"),
             bytes |-> <<>>]
       ELSE [raised |-> <<>>, bytes |-> SubSeq(plain, Len(TarMagic) + 1, Len(plain))]

\* mutant: a gzipped raw payload is decompressed only when extract is requested
extract_payload_gz_on_extract(m, bytes, extract) ==
    IF m.packaging = "tar" /\ extract
    THEN [raised |-> untar(bytes).raised,
          out |-> IF untar(bytes).raised = <<>>
                  THEN <<[kind |-> "directory", content |-> untar(bytes).bytes]>>
                  ELSE <<[kind |-> "directory", content |-> <<>>]>>]
    ELSE IF m.packaging = "raw" /\ m.compression = "gz" /\ extract
    THEN [raised |-> gunzip(bytes).raised,
          out |-> IF gunzip(bytes).raised = <<>>
                  THEN <<[kind |-> "file", content |-> gunzip(bytes).bytes]>>
                  ELSE <<[kind |-> "file", content |-> <<>>]>>]
    ELSE [raised |-> <<>>, out |-> <<[kind |-> "file", content |-> bytes]>>]

\* extract_payload(meta, payload_path, output, extract): what it leaves at the
\* output path, or the exception it raises
extract_payload(m, bytes, extract) ==
    IF m.packaging = "tar" /\ extract
    THEN [raised |-> untar(bytes).raised,
          out |-> IF untar(bytes).raised = <<>>
                  THEN <<[kind |-> "directory", content |-> untar(bytes).bytes]>>
                  ELSE <<[kind |-> "directory", content |-> <<>>]>>]
    ELSE IF m.packaging = "raw" /\ m.compression = "gz"
    THEN [raised |-> gunzip(bytes).raised,
          out |-> IF gunzip(bytes).raised = <<>>
                  THEN <<[kind |-> "file", content |-> gunzip(bytes).bytes]>>
                  ELSE <<[kind |-> "file", content |-> <<>>]>>]
    ELSE [raised |-> <<>>, out |-> <<[kind |-> "file", content |-> bytes]>>]

\* if not assembler.meta: raise RuntimeError(...)
CheckHeader ==
    /\ ps_pc = "ended"
    /\ IF meta = <<>>
       THEN /\ ps_exc' = <<"RuntimeError", "No session header received">>
            /\ ps_pc' = "raised"
       ELSE /\ ps_pc' = "write"
            /\ UNCHANGED ps_exc
    /\ UNCHANGED <<txvars, chvars, rxvars, cdvars, mainvars, fecvars, wire, ps_data, ps_kind, ps_last, ps_n,
                   fs_tmp, fs_out>>

\* assembler.write_payload(payload_tmp)
WriteTmp ==
    /\ ps_pc = "write"
    /\ fs_tmp' = write_payload(Rx).file
    /\ IF write_payload(Rx).raised # <<>>
       THEN /\ ps_exc' = <<"RuntimeError", "Missing block">>
            /\ ps_pc' = "cleanup"
       ELSE /\ ps_pc' = "verify"
            /\ UNCHANGED ps_exc
    /\ UNCHANGED <<txvars, chvars, rxvars, cdvars, mainvars, fecvars, wire, ps_data, ps_kind, ps_last, ps_n,
                   fs_out>>

\* a receiver that computes the hash and goes on whatever it is
VerifySha_unchecked ==
    /\ ps_pc = "verify"
    /\ ps_pc' = "extract"
    /\ UNCHANGED <<txvars, chvars, rxvars, cdvars, mainvars, fecvars, wire, ps_data, ps_kind, ps_last, ps_n,
                   ps_exc, fs_tmp, fs_out>>

\* sha = _file_sha256(payload_tmp); if sha != assembler.meta.sha256: raise
VerifySha ==
    /\ ps_pc = "verify"
    /\ IF sha256(fs_tmp[1]) # meta[1].sha256
       THEN /\ ps_exc' = <<"RuntimeError", "SHA256 mismatch">>
            /\ ps_pc' = "cleanup"
       ELSE /\ ps_pc' = "extract"
            /\ UNCHANGED ps_exc
    /\ UNCHANGED <<txvars, chvars, rxvars, cdvars, mainvars, fecvars, wire, ps_data, ps_kind, ps_last, ps_n,
                   fs_tmp, fs_out>>

\* final_path = extract_payload(...); fault: the file system refuses the output
\* path (mkdir or open fails)
Extract(extract, fault) ==
    /\ ps_pc = "extract"
    /\ IF fault
       THEN /\ ps_exc' = <<"OSError", "output path">>
            /\ UNCHANGED fs_out
       ELSE \E r \in {extract_payload(meta[1], fs_tmp[1], extract)} :
               /\ fs_out' = r.out
               /\ ps_exc' = IF r.raised = <<>> THEN <<>>
                            ELSE <<r.raised[1].exc, r.raised[1].msg>>
    /\ ps_pc' = "cleanup"
    /\ UNCHANGED <<txvars, chvars, rxvars, cdvars, mainvars, fecvars, wire, ps_data, ps_kind, ps_last, ps_n,
                   fs_tmp>>

\* a finally clause that removes the file only when the try block succeeded
Cleanup_on_success ==
    /\ ps_pc = "cleanup"
    /\ fs_tmp' = IF ps_exc = <<>> THEN <<>> ELSE fs_tmp
    /\ ps_pc' = IF ps_exc = <<>> THEN "returned" ELSE "raised"
    /\ UNCHANGED <<txvars, chvars, rxvars, cdvars, mainvars, fecvars, wire, ps_data, ps_kind, ps_last, ps_n,
                   ps_exc, fs_out>>

\* finally: if os.path.exists(payload_tmp): os.remove(payload_tmp)
Cleanup ==
    /\ ps_pc = "cleanup"
    /\ fs_tmp' = <<>>
    /\ ps_pc' = IF ps_exc = <<>> THEN "returned" ELSE "raised"
    /\ UNCHANGED <<txvars, chvars, rxvars, cdvars, mainvars, fecvars, wire, ps_data, ps_kind, ps_last, ps_n,
                   ps_exc, fs_out>>

StreamPayloads == {PayloadOf(0), PayloadOf(2)}
StreamConfigs ==
    [chunk_size : {2}, superblock_data : {2}, redundancy : {1},
     header_repeat : {1}, header_interval : {0}]

InitStream == InitWith(StreamPayloads, StreamConfigs)

NextStream ==
    \/ SenderStep
    \/ Render
    \/ \E i \in 1..Len(wire), kind \in Kinds : Capture(i, kind)
    \/ ProcessPayload
    \/ \E due \in BOOLEAN : ReportProgress(due)
    \/ EndOfVideo
    \/ CheckHeader
    \/ WriteTmp
    \/ VerifySha
    \/ \E extract \in BOOLEAN, fault \in BOOLEAN : Extract(extract, fault)
    \/ Cleanup

SpecStream == InitStream /\ [][NextStream]_vars

\* C7: a text whose bytes are too short, carry a wrong magic or version, a
\* declared payload length that disagrees with the buffer, or a CRC that does
\* not match header||payload makes from_b64 raise FrameError; the loop drops
\* it, goes on capturing, and the Reassembler is left as it was.
C7_CorruptedFrameRejected ==
    [][(ps_pc = "decode" /\ ps_kind \in RejectedKinds)
          => (/\ ps_last' \in { <<"FrameError", "frame too short">>,
                                <<"FrameError", "bad magic">>,
                                <<"FrameError", "unsupported version">>,
                                <<"FrameError", "frame length mismatch">>,
                                <<"FrameError", "CRC mismatch">> }
              /\ ps_pc' = "report"
              /\ UNCHANGED rxvars)]_vars

\* a frame with an altered payload byte has been dropped in mid-session
C7_Witness ==
    /\ ps_last = <<"FrameError", "CRC mismatch">>
    /\ ps_pc = "capture"
    /\ ps_n = MaxCaptured
    /\ meta # <<>>

\* C8: whatever text the capture step hands to the loop, a failure to decode it
\* never leaves process_stream.
C8_PerFrameErrorsNeverFatal == ~(ps_pc = "raised" /\ ps_exc = ps_last)

-----------------------------------------------------------------------------
(* The codec on its own: a valid Frame is built, serialised by to_b64, and   *)
(* the text is parsed back by from_b64.                                      *)

\* valid frames, with the least and the greatest value of the integer fields
\* (the greatest 32-bit value of the model is 2^31 - 1)
TestFrames ==
    { Frame(ft, SidA, sb, bid, total, bis, fl, pl) :
        ft \in FrameTypes, sb \in {0, 2147483647}, bid \in {0, 16909060},
        total \in {0, 2147483647}, bis \in {0, 65535}, fl \in {0, 255},
        pl \in {PayloadOf(0), PayloadOf(MaxSize)} }

\* Frame(frame_type=..., ...)
Construct(f) ==
    /\ cf = <<>>
    /\ cf' = <<f>>
    /\ UNCHANGED <<txvars, chvars, rxvars, psvars, mainvars, fecvars, cf_text, cf_back>>

\* f.to_b64()
Encode ==
    /\ cf # <<>>
    /\ cf_text = <<>>
    /\ cf_text' = <<to_b64(cf[1])>>
    /\ UNCHANGED <<txvars, chvars, rxvars, psvars, mainvars, fecvars, cf, cf_back>>

\* Frame.from_b64(text)
Decode ==
    /\ cf_text # <<>>
    /\ cf_text[1].raised = <<>>
    /\ cf_back = <<>>
    /\ cf_back' = <<from_b64(cf_text[1].text)>>
    /\ UNCHANGED <<txvars, chvars, rxvars, psvars, mainvars, fecvars, cf, cf_text>>

InitCodec == InitWith({PayloadOf(0)}, StreamConfigs)

NextCodec ==
    \/ \E f \in TestFrames : Construct(f)
    \/ Encode
    \/ Decode

SpecCodec == InitCodec /\ [][NextCodec]_vars

\* C9: every valid frame serialises without error, and parsing the text gives
\* back a frame equal to it field for field.
C9_FrameRoundTrip ==
    /\ cf_text # <<>> => cf_text[1].raised = <<>>
    /\ cf_back # <<>> => cf_back[1] = [raised |-> <<>>, frame |-> cf]

\* a frame with the greatest field values and a payload has made the round trip
C9_Witness ==
    /\ cf_back # <<>>
    /\ cf[1].frame_type = INDEX
    /\ cf[1].superblock_id = 2147483647
    /\ cf[1].block_id = 16909060
    /\ cf[1].blocks_in_super = 65535
    /\ cf[1].flags = 255
    /\ cf[1].payload # <<>>

-----------------------------------------------------------------------------
(* The sender on its own, over the parameters sender.main lets through:      *)
(* chunk_size > 0, superblock_data > 0, redundancy >= 0, and any             *)
(* header_repeat and header_interval.                                        *)

SenderConfigs ==
    [chunk_size : {1, 2}, superblock_data : {1, 2, 3}, redundancy : {0, 1, 2},
     header_repeat : {0 - 1, 0, 1, 2}, header_interval : {0 - 1, 0, 1, 2, 3}]

InitSender == InitWith(Payloads, SenderConfigs)

NextSender == SenderStep

SpecSender == InitSender /\ [][NextSender]_vars

\* the number of copies of the header that open the session
InitialHeaders == Max(1, cfg.header_repeat)

\* the DATA and FEC frames of a session in their order: per superblock, its DATA
\* frames by ascending block id, then cfg.redundancy FEC frames
ExpectedOrder ==
    LET n == Len(Chunks)
        group == cfg.superblock_data + cfg.redundancy
        At(p) ==
            LET s == (p - 1) \div group
                o == (p - 1) % group
                d == Min(cfg.superblock_data, n - s * cfg.superblock_data)
            IN IF o < d THEN <<DATA, s, s * cfg.superblock_data + o>> ELSE <<FEC, s, 0>>
    IN [p \in 1..(n + Cardinality(Superblocks) * cfg.redundancy) |-> At(p)]

OrderKey(f) ==
    IF f.frame_type = FEC THEN <<FEC, f.superblock_id, 0>>
    ELSE <<f.frame_type, f.superblock_id, f.block_id>>

\* the DATA and FEC frames among the first i emitted frames
BodyUpTo(i) ==
    SelectSeq(SubSeq(emitted, 1, i), LAMBDA f : f.frame_type # SESSION_HEADER)

\* C10: the session opens with max(1, header_repeat) header frames, before any
\* DATA or FEC frame; then come, superblock by superblock in ascending order,
\* the DATA frames of the superblock by ascending block id, immediately followed
\* by exactly `redundancy` FEC frames of that superblock, before any DATA frame
\* of the next superblock.
C10_EmissionOrder ==
    LET n == Len(emitted)
        body == BodyUpTo(n)
    IN /\ \A i \in 1..Min(n, InitialHeaders) : emitted[i].frame_type = SESSION_HEADER
       /\ n > InitialHeaders => emitted[InitialHeaders + 1].frame_type # SESSION_HEADER
       /\ Len(body) <= Len(ExpectedOrder)
       /\ \A k \in 1..Len(body) : OrderKey(body[k]) = ExpectedOrder[k]
       /\ SessionOver => Len(body) = Len(ExpectedOrder)
       \* a later header never sits inside a superblock's run of DATA and FEC frames
       /\ \A i \in (InitialHeaders + 1)..n :
              emitted[i].frame_type = SESSION_HEADER =>
                  LET k == Len(BodyUpTo(i))
                  IN \/ k = Len(ExpectedOrder)
                     \/ (ExpectedOrder[k + 1][1] = DATA
                           /\ ExpectedOrder[k + 1][2] = ExpectedOrder[k][2] + 1)

\* a finished session of several superblocks, sent with header_repeat < 1, two
\* parity frames per superblock and headers re-sent in between
C10_Witness ==
    /\ SessionOver
    /\ cfg.header_repeat < 1
    /\ cfg.redundancy = 2
    /\ Cardinality(Superblocks) >= 2
    /\ Cardinality(IndicesOfType(SESSION_HEADER)) > 1

-----------------------------------------------------------------------------
(* Numbering of the DATA frames *)

CeilDiv(a, b) == IF a % b = 0 THEN a \div b ELSE a \div b + 1

\* the DATA frames yielded so far, in their order
DataFrames == SelectSeq(emitted, LAMBDA f : f.frame_type = DATA)

\* the range of block ids the receiver takes superblock s to hold
RecoveryRange(s, total) ==
    {b \in 0..(total - 1) :
        s * cfg.superblock_data <= b /\ b < Min((s + 1) * cfg.superblock_data, total)}

\* C11: the header announces total_chunks = ceil(total_size / chunk_size); the
\* DATA frames carry block ids 0, 1, ..., total_chunks - 1, each once and in
\* ascending order; each has superblock_id = block_id div superblock_data and
\* blocks_in_super = the number of DATA frames of that superblock; so the block
\* ids sent with superblock_id s are exactly the receiver's range for s.
C11_DataNumbering ==
    LET d == DataFrames
        total == CeilDiv(Len(payload), cfg.chunk_size)
    IN /\ emitted # <<>> =>
             /\ emitted[1].frame_type = SESSION_HEADER
             /\ emitted[1].total_blocks = total
             /\ from_dict(emitted[1].payload) # <<>>
             /\ from_dict(emitted[1].payload)[1].total_chunks = total
             /\ from_dict(emitted[1].payload)[1].total_size = Len(payload)
       /\ Len(d) <= total
       /\ SessionOver => Len(d) = total
       /\ \A k \in 1..Len(d) :
             /\ d[k].block_id = k - 1
             /\ d[k].superblock_id = (k - 1) \div cfg.superblock_data
             /\ d[k].blocks_in_super = Cardinality(RecoveryRange(d[k].superblock_id, total))
       /\ SessionOver =>
             \A s \in 0..total :
                 {d[k].block_id : k \in {j \in 1..Len(d) : d[j].superblock_id = s}}
                     = RecoveryRange(s, total)

\* a finished session whose last superblock is a partial one
C11_Witness ==
    /\ SessionOver
    /\ cfg.superblock_data >= 2
    /\ Len(DataFrames) >= 3
    /\ Len(DataFrames) % cfg.superblock_data # 0
    /\ Len(payload) % cfg.chunk_size # 0

-----------------------------------------------------------------------------
(* Headers after the initial ones *)

\* the first k DATA and FEC frames of the session end a superblock
AtBoundary(k) ==
    /\ k >= 1
    /\ k <= Len(ExpectedOrder)
    /\ \/ k = Len(ExpectedOrder)
       \/ ExpectedOrder[k + 1][2] = ExpectedOrder[k][2] + 1

\* the number of DATA frames among the first k DATA and FEC frames
DataCountAt(k) == Cardinality({j \in 1..k : ExpectedOrder[j][1] = DATA})

\* after the first k DATA and FEC frames a header is to be sent again
HeaderDue(k) ==
    /\ cfg.header_interval > 0
    /\ AtBoundary(k)
    /\ DataCountAt(k) > 0
    /\ DataCountAt(k) % cfg.header_interval = 0

\* C12: after the initial headers, a header stands in the emitted sequence
\* exactly where the frames of a superblock have just ended and the number of
\* data blocks sent so far is a positive multiple of header_interval > 0: one
\* header there, at once, and none anywhere else (none at all when
\* header_interval <= 0).
C12_HeaderReinjection ==
    LET n == Len(emitted)
    IN /\ \A i \in (InitialHeaders + 1)..n :
              emitted[i].frame_type = SESSION_HEADER =>
                  /\ emitted[i - 1].frame_type # SESSION_HEADER
                  /\ HeaderDue(Len(BodyUpTo(i)))
       /\ \A i \in (InitialHeaders + 1)..n :
              (emitted[i].frame_type # SESSION_HEADER /\ HeaderDue(Len(BodyUpTo(i)))) =>
                  /\ i < n => emitted[i + 1].frame_type = SESSION_HEADER
                  /\ SessionOver => i < n
       /\ cfg.header_interval <= 0 =>
              \A i \in (InitialHeaders + 1)..n : emitted[i].frame_type # SESSION_HEADER

\* a finished session in which some superblock ends were followed by a header
\* and others were not
C12_Witness ==
    /\ SessionOver
    /\ cfg.header_interval >= 2
    /\ \E i \in (InitialHeaders + 1)..Len(emitted) :
           emitted[i].frame_type = SESSION_HEADER
    /\ \E k \in 1..Len(ExpectedOrder) : AtBoundary(k) /\ ~HeaderDue(k)

\* the file system did not refuse the output path
NoOutputFault == ps_exc = <<>> \/ ps_exc[1] # "OSError"

\* C13: a 0-byte payload is announced with total_size = 0 and total_chunks = 0
\* and sent as header frames only, at least one; a receiver that has adopted
\* such a header ends without an exception and leaves a 0-byte output file,
\* whenever the progress report is due.
C13_EmptyPayload ==
    payload = <<>> =>
        /\ \A i \in 1..Len(emitted) :
              /\ emitted[i].frame_type = SESSION_HEADER
              /\ emitted[i].total_blocks = 0
              /\ from_dict(emitted[i].payload)[1].total_size = 0
              /\ from_dict(emitted[i].payload)[1].total_chunks = 0
        /\ SessionOver => Len(emitted) >= 1
        /\ (meta # <<>> /\ NoOutputFault) => ps_pc # "raised"
        /\ ps_pc = "returned" => fs_out = <<[kind |-> "file", content |-> <<>>]>>

\* ===========================================================================
\* sender.py: main, from the staging of the payload to the exit
\* ===========================================================================

\* chunker.prepare_payload: the temporary file is created first
\* (NamedTemporaryFile(delete=False)), then the input is opened and copied
\* into it. When the input cannot be read the exception leaves prepare_payload,
\* and main with it, and nothing removes the file.
Stage ==
    /\ main_pc = "start"
    /\ tmp_file' = TRUE
    /\ IF main_args.input_ok
          THEN /\ main_pc' = "staged"
               /\ UNCHANGED main_exc
          ELSE /\ main_pc' = "exited"
               /\ main_exc' = <<"OSError">>
    /\ UNCHANGED <<main_args, fecvars, txvars, chvars, rxvars, psvars, cdvars>>

\* main, after staging: --no-display without --video-output is reported with
\* parser.error, which leaves main with SystemExit before the try block.
CheckDisplay ==
    /\ main_pc = "staged"
    /\ IF main_args.no_display /\ ~main_args.video_output
          THEN /\ main_pc' = "exited"
               /\ main_exc' = <<"SystemExit">>
          ELSE /\ main_pc' = "rendering"
               /\ UNCHANGED main_exc
    /\ UNCHANGED <<main_args, tmp_file, fecvars, txvars, chvars, rxvars, psvars, cdvars>>

\* the rendering loop pulls the next frame from generate_frames
RenderFrame ==
    /\ main_pc = "rendering"
    /\ tx_pc # "done"
    /\ SenderStep

\* the finally clause of main: os.remove(payload.path)
Finally(exc) ==
    /\ tmp_file' = FALSE
    /\ main_pc' = "exited"
    /\ main_exc' = exc
    /\ UNCHANGED <<main_args, fecvars, txvars, chvars, rxvars, psvars, cdvars>>

\* the frame sequence is exhausted and the rendering returns
RenderEnd ==
    /\ main_pc = "rendering"
    /\ tx_pc = "done"
    /\ Finally(<<>>)

\* render_batches: the operator presses q or ESC in the window; the loop breaks
RenderAbort ==
    /\ main_pc = "rendering"
    /\ ~main_args.no_display
    /\ Finally(<<>>)

\* an exception while frames are generated, encoded or written
RenderFault ==
    /\ main_pc = "rendering"
    /\ Finally(<<"Exception">>)

MainArgs == [no_display : BOOLEAN, video_output : BOOLEAN, input_ok : BOOLEAN]

MainConfigs ==
    [chunk_size : {1, 2}, superblock_data : {2}, redundancy : {1},
     header_repeat : {1}, header_interval : {0}]

InitMain ==
    /\ InitSession(Payloads, MainConfigs)
    /\ main_pc = "start"
    /\ main_args \in MainArgs
    /\ tmp_file = FALSE
    /\ FecIdle

NextMain ==
    \/ Stage
    \/ CheckDisplay
    \/ RenderFrame
    \/ RenderEnd
    \/ RenderAbort
    \/ RenderFault

SpecMain == InitMain /\ [][NextMain]_vars

\* C14: once prepare_payload has created the temporary payload file, the file
\* no longer exists when main has exited, whatever the exit path.
C14_TempFileRemoved == main_pc = "exited" => ~tmp_file

ShaMismatch == <<"RuntimeError", "SHA256 mismatch">>
Ended == ps_pc \in {"returned", "raised"}

\* C15: when process_stream has ended, by a return or by an exception, the
\* temporary concatenation file does not exist. extract_payload is reached
\* only with a file whose SHA-256 equals the announced one; on a mismatch the
\* RuntimeError is what process_stream ends with and the output path is
\* untouched.
C15_TmpRemovedNoOutputOnMismatch ==
    /\ Ended => fs_tmp = <<>>
    /\ ps_pc = "extract" => (fs_tmp # <<>> /\ sha256(fs_tmp[1]) = meta[1].sha256 /\ ps_exc = <<>>)
    /\ ps_exc = ShaMismatch => (ps_pc \in {"cleanup", "raised"} /\ fs_out = <<>>)
    /\ fs_out # <<>> => ps_pc \in {"cleanup", "returned", "raised"}

\* a session whose blocks were all present but did not hash to the announced
\* value has ended with the mismatch error
C15_Witness ==
    /\ ps_pc = "raised"
    /\ ps_exc = ShaMismatch
    /\ is_complete(Rx)

\* every block id of the session is held by the Reassembler
AllBlocksPresent ==
    /\ meta # <<>>
    /\ \A b \in 0..(meta[1].total_chunks - 1) : b \in DOMAIN data_blocks

\* the blocks in ascending block_id order, concatenated
Concatenated == WriteBlocks(data_blocks, 0, meta[1].total_chunks)

\* the capture loop has been left without an exception
CaptureOver == ps_pc \in {"ended", "write", "verify", "extract", "cleanup", "returned"}

\* C16: process_stream returns normally only with a header adopted, every
\* block of [0, total_chunks) present, and the SHA-256 of their concatenation
\* equal to the announced one. When the capture ends without a header or with
\* blocks missing, process_stream ends with an error and the output path is
\* untouched.
C16_VerifiedDeliveryOnly ==
    /\ ps_pc = "returned" =>
          /\ AllBlocksPresent
          /\ sha256(Concatenated) = meta[1].sha256
          /\ ps_exc = <<>>
    /\ ((CaptureOver \/ ps_pc = "raised") /\ ~AllBlocksPresent) =>
          /\ fs_out = <<>>
          /\ ps_pc \notin {"verify", "extract", "returned"}
          /\ ps_pc \in {"cleanup", "raised"} => ps_exc # <<>>

\* a non-empty payload has been delivered: the output file holds its bytes
C16_Witness ==
    /\ ps_pc = "returned"
    /\ fs_out = <<[kind |-> "file", content |-> payload]>>
    /\ payload # <<>>

-----------------------------------------------------------------------------
(* fec.py on its own: a list of blocks is given, and one of the functions is *)
(* called on it.                                                             *)

MaxBlocks == 3
MaxBlockLen == 1

FecBytes == {0, 165}
FecBlock == UNION { [1..n -> FecBytes] : n \in 0..MaxBlockLen }
FecLists == UNION { [1..k -> FecBlock] : k \in 1..MaxBlocks }
FecCounts == {0 - 1, 0, 1, 2}

\* B without its i-th block
Without(B, i) == SubSeq(B, 1, i - 1) \o SubSeq(B, i + 1, Len(B))

\* generate_parity_blocks(B, r)
Generate(r) ==
    /\ fec_op = <<>>
    /\ fec_op' = <<"generate", r>>
    /\ fec_result' = <<generate_parity_blocks(fec_blocks, r)>>
    /\ UNCHANGED <<fec_blocks, txvars, chvars, rxvars, psvars, cdvars, mainvars>>

\* recover_single_missing(B without B[i], xor_parity_block(B), 1)
Recover(i) ==
    /\ fec_op = <<>>
    /\ i \in 1..Len(fec_blocks)
    /\ fec_op' = <<"recover", i>>
    /\ fec_result' =
          <<recover_single_missing(Without(fec_blocks, i), xor_parity_block(fec_blocks), 1)>>
    /\ UNCHANGED <<fec_blocks, txvars, chvars, rxvars, psvars, cdvars, mainvars>>

InitFec ==
    /\ InitSession({PayloadOf(0)}, StreamConfigs)
    /\ MainRendering
    /\ fec_blocks \in FecLists
    /\ fec_op = <<>>
    /\ fec_result = <<>>

NextFec ==
    \/ \E r \in FecCounts : Generate(r)
    \/ \E i \in 1..MaxBlocks : Recover(i)

SpecFec == InitFec /\ [][NextFec]_vars

\* the block a recovery must return: B[i] padded with zero bytes
Padded(B, i) == ljust(B[i], MaxLen(B))

RecoveryDone == fec_op # <<>> /\ fec_op[1] = "recover"
GenerationDone == fec_op # <<>> /\ fec_op[1] = "generate"

\* the copies generate_parity_blocks returns: max(r, 0) blocks, each the XOR
\* parity of B, of the greatest block length of B
ParityCopies ==
    GenerationDone =>
        /\ Len(fec_result[1]) = Max(fec_op[2], 0)
        /\ \A k \in 1..Len(fec_result[1]) :
              /\ fec_result[1][k] = xor_parity_block(fec_blocks)
              /\ Len(fec_result[1][k]) = MaxLen(fec_blocks)
              /\ \A j \in 1..MaxLen(fec_blocks) :
                    \A bit \in 0..7 :
                       Bit(fec_result[1][k][j], bit) =
                          Cardinality({b \in 1..Len(fec_blocks) :
                                          j <= Len(fec_blocks[b])
                                          /\ Bit(fec_blocks[b][j], bit) = 1}) % 2

\* C17 as stated: for every non-empty list B and every index i, the recovery
\* from the parity of B and the blocks other than B[i] returns B[i] padded
\* with zero bytes to the greatest block length of B; generate_parity_blocks
\* returns r identical copies of the parity.
C17_ParityLawAnyList ==
    /\ RecoveryDone => fec_result[1] = <<Padded(fec_blocks, fec_op[2])>>
    /\ ParityCopies

\* C17 amended: the same, for lists with at least one non-empty block; when
\* every block of B is empty the parity is empty and the recovery returns None.
C17_ParityLaw ==
    /\ RecoveryDone =>
          fec_result[1] = IF MaxLen(fec_blocks) > 0
                          THEN <<Padded(fec_blocks, fec_op[2])>>
                          ELSE <<>>
    /\ ParityCopies

\* an empty block among three has been recovered as zero bytes of the length
\* of the other two
C17_Witness ==
    /\ RecoveryDone
    /\ Len(fec_blocks) = 3
    /\ fec_blocks[fec_op[2]] = <<>>
    /\ fec_result[1] = << <<0>> >>
    /\ \E b \in 1..3 : fec_blocks[b] = <<165>>

-----------------------------------------------------------------------------
(* extract_payload on its own: process_stream has written and verified the   *)
(* temporary file of a session whose header names a packaging and a          *)
(* compression, and calls extract_payload.  The sender is not part of this.  *)

Packagings == {"raw", "tar", "zip"}
Compressions == {"none", "gz"}

\* chunker.prepare_payload: the bytes staged for the input d
Prepared(p, c, d) ==
    LET packed == IF p = "tar" THEN tar_pack(d) ELSE d
    IN IF c = "gz" THEN gzip_compress(packed) ELSE packed

\* the metadata a header of such a session carries
ExtractMeta(p, c, staged) ==
    [build_metadata(Len(staged), 2, 2, 1, sha256(staged), SidA)
        EXCEPT !.packaging = p, !.compression = c]

InitExtract ==
    /\ \E p \in Packagings, c \in Compressions, d \in Payloads :
          /\ payload = Prepared(p, c, d)
          /\ meta = <<ExtractMeta(p, c, payload)>>
          /\ data_blocks = [b \in 0..(meta[1].total_chunks - 1) |->
                               iter_chunks(payload, 0, 2)[b + 1]]
          /\ fs_tmp = <<payload>>
    /\ cfg \in StreamConfigs
    /\ tx_pc = "done"
    /\ tx_i = 0
    /\ block_id = 0
    /\ superblock_id = 0
    /\ chunk_pos = 0
    /\ tx_blocks = <<>>
    /\ emitted = <<>>
    /\ early = {}
    /\ post = {}
    /\ extra = 0
    /\ session_id = SidA
    /\ parity_blocks = <<>>
    /\ headers_seen = 1
    /\ wire = <<>>
    /\ ps_pc = "extract"
    /\ ps_data = <<>>
    /\ ps_kind = "none"
    /\ ps_last = <<"ingested">>
    /\ ps_n = 0
    /\ ps_exc = <<>>
    /\ fs_out = <<>>
    /\ cf = <<>>
    /\ cf_text = <<>>
    /\ cf_back = <<>>
    /\ main_exc = <<>>
    /\ MainRendering
    /\ FecIdle

NextExtract ==
    \/ \E extract \in BOOLEAN, fault \in BOOLEAN : Extract(extract, fault)
    \/ Cleanup

SpecExtract == InitExtract /\ [][NextExtract]_vars

\* the input the sender staged: the d with Prepared(packaging, compression, d)
\* equal to the temporary file
Original ==
    CHOOSE d \in Payloads : Prepared(meta[1].packaging, meta[1].compression, d) = fs_tmp[1]

\* what the claim says is at the output path after extract_payload
Dispatched(extract) ==
    IF meta[1].packaging = "tar" /\ extract
    THEN <<[kind |-> "directory", content |-> Original]>>
    ELSE IF meta[1].packaging = "raw" /\ meta[1].compression = "gz"
    THEN <<[kind |-> "file", content |-> Original]>>
    ELSE <<[kind |-> "file", content |-> fs_tmp[1]]>>

\* C18: extract_payload picks its action from packaging, compression and
\* extract alone: tar with extract requested is extracted into the destination
\* directory; raw with gz is gunzipped into the destination file; every other
\* combination, tar without extract included, is copied unchanged.
C18_ExtractionDispatch ==
    [][\A extract \in BOOLEAN :
          (ps_pc = "extract" /\ Extract(extract, FALSE))
             => (fs_out' = Dispatched(extract) /\ ps_exc' = <<>>)]_vars

\* a gzipped tar archive has been extracted into the destination directory
C18_Witness ==
    /\ ps_pc = "returned"
    /\ meta[1].packaging = "tar"
    /\ meta[1].compression = "gz"
    /\ payload = gzip_compress(tar_pack(PayloadOf(2)))
    /\ fs_out = <<[kind |-> "directory", content |-> PayloadOf(2)]>>

-----------------------------------------------------------------------------
(* Payload lengths, sender against receiver *)

\* the Reassembler after the sender's header has been ingested
Adopted == ingest(NewReassembler, _header_frame(SenderMeta))

\* the length of the last data block, by the header's figures
TailLen == Len(payload) - cfg.chunk_size * (SenderMeta.total_chunks - 1)

\* the lengths of the DATA payloads yielded so far with superblock_id s
DataLensOf(s) ==
    {Len(emitted[i].payload) : i \in {j \in IndicesOfType(DATA) : emitted[j].superblock_id = s}}

\* C19: every DATA payload is chunk_size long, except that of the last block
\* (block_id = total_chunks - 1), which is total_size - chunk_size *
\* (total_chunks - 1) long, between 1 and chunk_size; every FEC payload is as
\* long as the longest DATA payload of its superblock; and _expected_len of
\* the receiver gives, for every block id, the length the sender sent.
C19_PayloadLengths ==
    /\ \A i \in IndicesOfType(DATA) :
          LET f == emitted[i]
          IN /\ f.block_id \in 0..(SenderMeta.total_chunks - 1)
             /\ Len(f.payload) = IF f.block_id = SenderMeta.total_chunks - 1
                                 THEN TailLen ELSE cfg.chunk_size
             /\ 1 <= TailLen /\ TailLen <= cfg.chunk_size
             /\ _expected_len(Adopted, f.block_id) = Len(f.payload)
    /\ \A i \in IndicesOfType(FEC) :
          /\ DataLensOf(emitted[i].superblock_id) # {}
          /\ \A n \in DataLensOf(emitted[i].superblock_id) : n <= Len(emitted[i].payload)
          /\ Len(emitted[i].payload) \in DataLensOf(emitted[i].superblock_id)
    /\ SessionOver =>
          \A b \in 0..(SenderMeta.total_chunks - 1) :
             \E i \in IndicesOfType(DATA) :
                /\ emitted[i].block_id = b
                /\ _expected_len(Adopted, b) = Len(emitted[i].payload)

\* a session whose last block is shorter than chunk_size has been sent with
\* parity, the last superblock holding a full and a short block
C19_Witness ==
    /\ SessionOver
    /\ cfg.chunk_size = 2
    /\ Len(payload) = 5
    /\ cfg.superblock_data = 3
    /\ \E i \in IndicesOfType(FEC) : Len(emitted[i].payload) = 2
    /\ \E i \in IndicesOfType(DATA) : emitted[i].block_id = 2 /\ Len(emitted[i].payload) = 1

-----------------------------------------------------------------------------
(* Header re-injection counted in DATA frames *)

\* the number of DATA frames among emitted[i..j]
DataBetween(i, j) == Cardinality({k \in i..j : emitted[k].frame_type = DATA})

\* no SESSION_HEADER frame among emitted[i..j]
NoHeaderBetween(i, j) == \A k \in i..j : emitted[k].frame_type # SESSION_HEADER

\* C20: with header_interval = N > 0 a header is injected every N data
\* frames: no stretch of the emitted sequence without a SESSION_HEADER frame
\* holds more than N DATA frames, whatever superblock_data is.
C20_HeaderEveryNDataFrames ==
    cfg.header_interval > 0 =>
        \A i \in 1..Len(emitted) : \A j \in i..Len(emitted) :
           NoHeaderBetween(i, j) => DataBetween(i, j) <= cfg.header_interval

-----------------------------------------------------------------------------
(* Frames before adoption, and INDEX frames *)

\* INDEX frames of either session, with and without a payload
IndexFrames ==
    { Frame(INDEX, sid, 0, b, 2, 0, 0, pl) :
        sid \in {SidA, SidB}, b \in {0, 1}, pl \in {<<>>, <<7>>} }

\* the frames a capture may hand to ingest in the current state
Ingestible == OtherFrames \cup IndexFrames \cup {emitted[i] : i \in 1..Len(emitted)}

\* C21: while no session header has been adopted, ingesting a DATA, FEC or
\* INDEX frame leaves meta, session_id, data_blocks, parity_blocks and
\* headers_seen as they are; an INDEX frame leaves them as they are in every
\* state.
C21_DroppedBeforeAdoption ==
    \A f \in Ingestible :
        /\ (meta = <<>> /\ f.frame_type \in {DATA, FEC, INDEX}) => ingest(Rx, f) = Rx
        /\ f.frame_type = INDEX => ingest(Rx, f) = Rx

\* a DATA frame and an FEC frame of the session were ingested before any
\* header, and the Reassembler is as it was built
C21_Witness ==
    /\ early \cap IndicesOfType(DATA) # {}
    /\ early \cap IndicesOfType(FEC) # {}
    /\ Rx = NewReassembler

-----------------------------------------------------------------------------
(* Specification with well-formed frames that bear the sender's session_id  *)
(* and are not the sender's: DATA frames with other bytes, one of them with *)
(* a block_id beyond total_chunks, and an FEC frame with other bytes.       *)

ForgedFrames ==
    { Frame(DATA, SidA, b \div 2, b, 2, 2, 0, <<1, 2>>) : b \in {0, 1, 7} }
    \cup { Frame(FEC, SidA, 0, 2, 2, 2, 0, <<3, 3>>) }

NextForged ==
    \/ Next
    \/ \E f \in ForgedFrames : IngestSameSession(f)

SpecForged == InitAdv /\ [][NextForged]_vars

\* C22: a block_id that is in data_blocks stays there with the bytes first
\* stored: no step (a DATA frame with the same block_id and the same or other
\* bytes, an FEC frame, a recovery) changes or removes the entry, and what a
\* step adds was missing before.
C22_StoredAtMostOnce ==
    [][\A b \in DOMAIN data_blocks :
          b \in DOMAIN data_blocks' /\ data_blocks'[b] = data_blocks[b]]_vars

\* block 0 was first stored with other bytes; the sender's DATA frame for
\* block 0 and an FEC frame of its superblock were ingested afterwards, and
\* the entry is the one first stored
C22_Witness ==
    /\ 0 \in DOMAIN data_blocks
    /\ data_blocks[0] = <<1, 2>>
    /\ \E i \in post \cap IndicesOfType(DATA) : emitted[i].block_id = 0
    /\ \E i \in post \cap IndicesOfType(FEC) : emitted[i].superblock_id = 0

-----------------------------------------------------------------------------
(* Adoption of the session *)

\* SESSION_HEADER frames whose payload json.loads or from_dict rejects
BadHeaders ==
    { Frame(SESSION_HEADER, sid, 0, 0, 0, 0, 0, pl) :
        sid \in {SidA, SidB}, pl \in {<<123, 125>>, <<>>, <<123>>} }

\* SESSION_HEADER frames that parse
GoodHeaders ==
    {f \in Ingestible \cup SameSessionFrames :
        f.frame_type = SESSION_HEADER /\ from_dict(f.payload) # <<>>}

\* meta is set exactly when session_id is; a header that does not parse
\* changes nothing; while no session is adopted, a header that parses is
\* adopted
Adoption ==
    /\ (meta = <<>>) <=> (session_id = <<>>)
    /\ (session_id = <<>>) <=> (headers_seen = 0)
    /\ \A f \in BadHeaders : ingest(Rx, f) = Rx
    /\ session_id = <<>> =>
          \A f \in GoodHeaders :
             /\ ingest(Rx, f).session_id = f.session_id
             /\ ingest(Rx, f).meta = from_dict(f.payload)

\* C23: the adopted session_id is set by the first SESSION_HEADER whose JSON
\* payload parses and never changes afterwards; meta is set exactly when
\* session_id is set; a SESSION_HEADER whose payload fails to parse changes
\* nothing, before and after adoption.
C23_OneTimeAdoption ==
    [][/\ session_id # <<>> => session_id' = session_id
       /\ Adoption
       /\ Adoption']_vars

\* the sender's only frame, its header, was ingested once and adopted; one
\* more frame was ingested after it that was not accepted as a header (a
\* header that does not parse, or a frame of the other session), and the
\* session_id is the sender's
C23_Witness ==
    /\ session_id = SidA
    /\ payload = <<>>
    /\ SessionOver
    /\ Delivered = 1..Len(emitted)
    /\ early = {}
    /\ extra = MaxExtra
    /\ headers_seen = 1

-----------------------------------------------------------------------------
(* Termination of the sender.  The consumer of generate_frames (the          *)
(* rendering loop) asks for the next frame as long as there is one.          *)

TerminationConfigs ==
    [chunk_size : {1, 2}, superblock_data : {1, 2, 3}, redundancy : {0, 1, 2},
     header_repeat : {1}, header_interval : {0, 2}]

InitSenderFair == InitWith(Payloads, TerminationConfigs)

SpecSenderFair == InitSenderFair /\ [][NextSender]_vars /\ WF_vars(NextSender)

\* the numbers of DATA and FEC frames of a whole session
SessionCounts ==
    /\ Cardinality(IndicesOfType(DATA)) = SenderMeta.total_chunks
    /\ Cardinality(IndicesOfType(FEC)) =
          cfg.redundancy * CeilDiv(SenderMeta.total_chunks, cfg.superblock_data)
    /\ chunk_pos = Len(payload)

\* the read at the top of the loop finds no chunk
EmptyRead ==
    /\ tx_pc = "read"
    /\ ReadBlocks(payload, chunk_pos, cfg.chunk_size, cfg.superblock_data) = <<>>

\* C24: for every payload and every accepted configuration, generate_frames
\* pulled to exhaustion comes to its end, having yielded total_chunks DATA
\* frames and redundancy * ceil(total_chunks / superblock_data) FEC frames;
\* it ends at the first read of a superblock that yields no chunk, and at no
\* other point.
C24_SenderTermination ==
    /\ <>SessionOver
    /\ [](SessionOver => SessionCounts)
    /\ [][/\ EmptyRead => tx_pc' = "done"
          /\ tx_pc' = "done" => EmptyRead]_vars

\* a session of three superblocks, the last of one block, with two parity
\* frames each, has come to its end
C24_Witness ==
    /\ SessionOver
    /\ cfg.superblock_data = 2
    /\ cfg.redundancy = 2
    /\ Cardinality(IndicesOfType(DATA)) = 5
    /\ Cardinality(IndicesOfType(FEC)) = 6

-----------------------------------------------------------------------------
(* Serialisation of the frames the sender yields.  main accepts every        *)
(* chunk-size > 0; the payload length of a frame is a 16-bit field.          *)

\* the greatest payload length Frame.to_bytes accepts (0xFFFF)
MaxPayloadLen == 65535

SerialPayloads == Payloads \cup {PayloadOf(MaxPayloadLen + 1)}

SerialConfigs ==
    [chunk_size : {1, 2, MaxPayloadLen + 1}, superblock_data : {1, 2}, redundancy : {0, 1},
     header_repeat : {1}, header_interval : {0}]

\* the payload of more than MaxPayloadLen bytes is sent in one chunk and
\* without parity; the small ones with every configuration
InitSerial ==
    /\ InitWith(SerialPayloads, SerialConfigs)
    /\ Len(payload) > MaxSize => (cfg.chunk_size > MaxPayloadLen /\ cfg.redundancy = 0)

NextSerial ==
    \/ SenderStep
    \/ Render

SpecSerial == InitSerial /\ [][NextSerial]_vars

\* the parameters main accepts
Accepted == cfg.chunk_size > 0 /\ cfg.superblock_data > 0 /\ cfg.redundancy >= 0

\* the DATA frame generate_frames yields for block b of the staged payload
DataFrameOf(b) ==
    Frame(DATA, SenderMeta.session_id, b \div cfg.superblock_data, b,
          SenderMeta.total_chunks, Cardinality(BlocksOf(b \div cfg.superblock_data)),
          0, Chunks[b + 1])

\* every DATA frame yielded so far is the frame DataFrameOf gives for its block
DataFramesAsYielded ==
    \A i \in IndicesOfType(DATA) :
       /\ emitted[i].block_id \in 0..(Len(Chunks) - 1)
       /\ emitted[i] = DataFrameOf(emitted[i].block_id)

\* Frame.to_bytes returns: the lengths fit their 16-bit fields
Serialisable(f) ==
    /\ Len(f.payload) <= MaxPayloadLen
    /\ f.blocks_in_super <= 65535
    /\ to_bytes(f).raised = <<>>

\* C25: for every parameter set the sender accepts and every payload, each
\* frame generate_frames yields serialises without error: its payload is at
\* most 65535 bytes long and its blocks_in_super fits 16 bits.  Stated of the
\* frames yielded so far and of the DATA frame of every block of the session.
C25_EveryFrameSerialisable ==
    Accepted =>
        /\ \A i \in 1..Len(emitted) : Serialisable(emitted[i])
        /\ \A b \in 0..(Len(Chunks) - 1) : Serialisable(DataFrameOf(b))

\* ---------------------------------------------------------------------------
\* C26: in every reachable Reassembler state, whatever CRC-valid frames of the
\* adopted session were ingested (DATA frames with a block_id at or above
\* total_chunks included), is_complete() implies that every block id of
\* [0, total_chunks) is in data_blocks, so write_payload does not raise for a
\* missing block.
C26_CompleteImpliesAllPresent ==
    is_complete(Rx) => /\ AllBlocksPresent
                       /\ write_payload(Rx).raised = <<>>

\* ---------------------------------------------------------------------------
\* C27: whatever frames of the sender's session are lost, repeated or reordered,
\* in every reachable Reassembler state that adopted the session each entry
\* data_blocks[i] is the sender's chunk i byte for byte, whether it came in a
\* DATA frame or was recovered from parity, and data_blocks has no key outside
\* [0, total_chunks).
C27_StoredBlocksGenuine ==
    session_id = SidA =>
        \A b \in DOMAIN data_blocks :
            /\ b \in 0..(meta[1].total_chunks - 1)
            /\ b \in 0..(Len(Chunks) - 1)
            /\ data_blocks[b] = Chunks[b + 1]

\* a block received in a DATA frame next to a short last block that only the
\* parity gave back, after a frame was shown twice
C27_Witness ==
    /\ session_id = SidA
    /\ extra > 0
    /\ DOMAIN data_blocks \cap DataIngested # {}
    /\ \E b \in DOMAIN data_blocks \ DataIngested :
           /\ b = Len(Chunks) - 1
           /\ Len(data_blocks[b]) < cfg.chunk_size

=============================================================================
